---- MODULE Spec2Model ----
(***************************************************************************)
(* Entity-resolution engine of jon9314/genealogy: the Person / Family /    *)
(* Child store of backend/app/core/models.py and the two-pass chart parser *)
(* of backend/app/core/parser.py.                                          *)
(*                                                                         *)
(* Text is a tuple of one-character strings; the empty tuple stands for    *)
(* both None and "" (the code tests these fields by truthiness only).      *)
(* A table is a sequence of rows; a row's id is its position (SQLite       *)
(* rowids).  A deleted row leaves a blank row behind unless it is the last *)
(* one: SQLite gives a new row the largest rowid in use plus one.  Queries *)
(* without ORDER BY return rows in id order (the plans SQLite picks for    *)
(* them scan by rowid within one index key).                               *)
(*                                                                         *)
(* The parse jobs of backend/app/api/parse.py and the OCR job queue of     *)
(* backend/app/core/ocr_runner.py run in threads: PARSE_JOBS, OCR_JOBS and *)
(* OCR_JOB_QUEUE are the module-level stores of the code, threads, callers *)
(* and worker hold the position and the locals of each thread.             *)
(***************************************************************************)
EXTENDS Integers, Sequences, FiniteSets, TLC

VARIABLES persons, families, children, pages, runs, calls, last, resolved,
          PARSE_JOBS, threads, locals, OCR_JOBS, OCR_JOB_QUEUE, callers, worker

jobvars == <<PARSE_JOBS, threads, locals>>

ocrvars == <<OCR_JOBS, OCR_JOB_QUEUE, callers, worker>>

vars == <<persons, families, children, pages, runs, calls, last, resolved,
          jobvars, ocrvars>>

----------------------------------------------------------------------------
(* Characters and text helpers                                             *)

None == <<>>

NoYear == -1

NoId == 0

Digits == {"0", "1", "2", "3", "4", "5", "6", "7", "8", "9"}

UpperSeq == <<"A", "B", "C", "D", "E", "F", "G", "H", "I", "J", "K", "L", "M",
              "N", "O", "P", "Q", "R", "S", "T", "U", "V", "W", "X", "Y", "Z">>

LowerSeq == <<"a", "b", "c", "d", "e", "f", "g", "h", "i", "j", "k", "l", "m",
              "n", "o", "p", "q", "r", "s", "t", "u", "v", "w", "x", "y", "z">>

UpperSet == {UpperSeq[i] : i \in 1..26}

LowerSet == {LowerSeq[i] : i \in 1..26}

IsAlpha(c) == c \in UpperSet \cup LowerSet

IsWordChar(c) == IsAlpha(c) \/ c \in Digits \/ c = "_"

LowerChar(c) ==
    IF c \in UpperSet THEN LowerSeq[CHOOSE i \in 1..26 : UpperSeq[i] = c] ELSE c

UpperChar(c) ==
    IF c \in LowerSet THEN UpperSeq[CHOOSE i \in 1..26 : LowerSeq[i] = c] ELSE c

LowerText(s) == [i \in 1..Len(s) |-> LowerChar(s[i])]

UpperText(s) == [i \in 1..Len(s) |-> UpperChar(s[i])]

DigitValue(c) ==
    CASE c = "0" -> 0 [] c = "1" -> 1 [] c = "2" -> 2 [] c = "3" -> 3
      [] c = "4" -> 4 [] c = "5" -> 5 [] c = "6" -> 6 [] c = "7" -> 7
      [] c = "8" -> 8 [] c = "9" -> 9

RECURSIVE ToInt(_)
ToInt(s) == IF s = <<>> THEN 0
            ELSE 10 * ToInt(SubSeq(s, 1, Len(s) - 1)) + DigitValue(s[Len(s)])

Min2(a, b) == IF a <= b THEN a ELSE b

Abs(n) == IF n < 0 THEN -n ELSE n

(* s[i..] and s[..i] in the 1-based positions of the model *)
From(s, i) == SubSeq(s, i, Len(s))

Upto(s, i) == SubSeq(s, 1, i)

RECURSIVE LStrip(_, _)
LStrip(s, cs) == IF s # <<>> /\ s[1] \in cs THEN LStrip(Tail(s), cs) ELSE s

RECURSIVE RStrip(_, _)
RStrip(s, cs) == IF s # <<>> /\ s[Len(s)] \in cs
                 THEN RStrip(SubSeq(s, 1, Len(s) - 1), cs) ELSE s

Strip(s, cs) == RStrip(LStrip(s, cs), cs)

Blank == {" "}

Positions(s) == [p \in 1..Len(s) |-> p]

(* least position >= i of s holding a character of cs, 0 when there is none *)
FindFrom(s, cs, i) ==
    LET hits == SelectSeq(Positions(s), LAMBDA p : p >= i /\ s[p] \in cs)
    IN  IF hits = <<>> THEN 0 ELSE hits[1]

(* str.split(): the maximal runs of non-blank characters *)
RECURSIVE Tokens(_)
Tokens(s) ==
    LET t == LStrip(s, Blank)
        e == FindFrom(t, Blank, 1)
    IN  IF t = <<>> THEN <<>>
        ELSE IF e = 0 THEN <<t>>
        ELSE <<Upto(t, e - 1)>> \o Tokens(From(t, e))

RECURSIVE JoinTokens(_)
JoinTokens(ts) == IF ts = <<>> THEN <<>>
                  ELSE IF Len(ts) = 1 THEN ts[1]
                  ELSE ts[1] \o <<" ">> \o JoinTokens(Tail(ts))

(* re.sub(r"\s+", " ", s).strip() *)
Collapse(s) == JoinTokens(Tokens(s))

(* first position p with four digits at p..p+3, 0 when there is none *)
RECURSIVE YearAt(_, _)
YearAt(s, p) == IF p + 3 > Len(s) THEN 0
                ELSE IF \A k \in 0..3 : s[p + k] \in Digits THEN p
                ELSE YearAt(s, p + 1)

----------------------------------------------------------------------------
(* Person: name keys and matching helpers (models.py)                      *)

_normalize_name(value) ==
    IF value = None THEN None
    ELSE SelectSeq(LowerText(value), IsAlpha)

_extract_year(value) ==
    IF value = None THEN NoYear
    ELSE LET p == YearAt(value, 1)
         IN  IF p = 0 THEN NoYear ELSE ToInt(SubSeq(value, p, p + 3))

RECURSIVE LevRow(_, _, _, _, _)
LevRow(prev, curr, ca, b, j) ==
    IF j > Len(b) THEN curr
    ELSE LET cost == IF ca = b[j] THEN 0 ELSE 1
             v == Min2(Min2(curr[j] + 1, prev[j + 1] + 1), prev[j] + cost)
         IN  LevRow(prev, Append(curr, v), ca, b, j + 1)

RECURSIVE LevRows(_, _, _, _)
LevRows(prev, a, b, i) ==
    IF i > Len(a) THEN prev[Len(prev)]
    ELSE LevRows(LevRow(prev, <<i>>, a[i], b, 1), a, b, i + 1)

NoneDistance == 999

_levenshtein(a, b) ==
    IF a = None \/ b = None THEN NoneDistance
    ELSE IF a = b THEN 0
    ELSE LevRows([k \in 1..(Len(b) + 1) |-> k - 1], a, b, 1)

(* jellyfish.metaphone on the letters the chart names of this model use:    *)
(* a leading "ae" loses its "a"; a letter equal to its successor is        *)
(* skipped; a vowel is kept only in first position; f j l m n r are kept;  *)
(* the code is upper-cased.  Other letters are outside the model.          *)
Vowels == {"a", "e", "i", "o", "u"}

KeptConsonants == {"f", "j", "l", "m", "n", "r"}

RECURSIVE MetaScan(_, _, _)
MetaScan(s, i, acc) ==
    IF i > Len(s) THEN acc
    ELSE LET c == s[i]
             next == IF i < Len(s) THEN s[i + 1] ELSE "*"
         IN  CASE c = next -> MetaScan(s, i + 1, acc)
               [] c # next /\ c \in Vowels ->
                    MetaScan(s, i + 1, IF i = 1 THEN Append(acc, c) ELSE acc)
               [] c # next /\ c \in KeptConsonants ->
                    MetaScan(s, i + 1, Append(acc, c))

metaphone(s) ==
    LET low == LowerText(s)
        cut == IF Len(low) >= 2 /\ Upto(low, 2) = <<"a", "e">> THEN Tail(low) ELSE low
    IN  UpperText(MetaScan(cut, 1, <<>>))

_phonetic_match(a, b) ==
    IF a = None \/ b = None THEN FALSE
    ELSE metaphone(a) = metaphone(b)

----------------------------------------------------------------------------
(* Tables                                                                  *)

NoIndex == -1

NoVital == [raw |-> None, approx |-> FALSE, year |-> NoYear]

(* least of the ids a query selects, NoId when it selects none:           *)
(* session.exec(select(...)).first()                                       *)
First(ids) ==
    IF ids = {} THEN NoId
    ELSE CHOOSE i \in ids : \A j \in ids : i <= j

(* a table without its trailing blank rows *)
RECURSIVE Trimmed(_, _)
Trimmed(T, gone) ==
    IF Len(T) > 0 /\ T[Len(T)] = gone THEN Trimmed(SubSeq(T, 1, Len(T) - 1), gone)
    ELSE T

(* session.delete / delete(...).where(...): the rows ids leave the table T *)
Deleted(T, ids, gone) ==
    Trimmed([i \in 1..Len(T) |-> IF i \in ids THEN gone ELSE T[i]], gone)

(* session.get(...) is not None *)
Exists(T, id, gone) == id \in 1..Len(T) /\ T[id] # gone

(* the blank rows of the three tables *)
NoPerson ==
    [ source_id |-> 0, name |-> None, gen |-> 0, given |-> None, surname |-> None,
      birth |-> None, death |-> None, sex |-> "", title |-> None, notes |-> None,
      line_key |-> None, normalized_given |-> None, normalized_surname |-> None,
      birth_year |-> NoYear, approx |-> FALSE, page_index |-> NoIndex,
      line_index |-> NoIndex ]

NoFamily ==
    [ source_id |-> 0, husband_id |-> NoId, wife_id |-> NoId, is_single_parent |-> FALSE,
      line_key |-> None, approx |-> FALSE, page_index |-> NoIndex ]

NoChild ==
    [ family_id |-> NoId, person_id |-> NoId, order_index |-> 0, line_key |-> None,
      approx |-> FALSE, page_index |-> NoIndex ]

----------------------------------------------------------------------------
(* Person.upsert_from_parse: the table after the call, the id returned and *)
(* whether the row was inserted                                            *)

YearTolerance == 2

DistanceTolerance == 2

(* the policy with the distance compared by < instead of <= *)
FuzzyAcceptsBelow(candidate, given, normalized_given, birth_year) ==
    /\ ~ ( /\ birth_year # NoYear
           /\ candidate.birth_year # NoYear
           /\ Abs(birth_year - candidate.birth_year) > YearTolerance )
    /\ \/ _levenshtein(normalized_given, candidate.normalized_given) < DistanceTolerance
       \/ _phonetic_match(given, candidate.given)

FuzzyAccepts(candidate, given, normalized_given, birth_year) ==
    /\ ~ ( /\ birth_year # NoYear
           /\ candidate.birth_year # NoYear
           /\ Abs(birth_year - candidate.birth_year) > YearTolerance )
    /\ \/ _levenshtein(normalized_given, candidate.normalized_given) <= DistanceTolerance
       \/ _phonetic_match(given, candidate.given)

SightingYear(s) ==
    IF s.birth.raw = None THEN NoYear
    ELSE IF s.birth.year \notin {NoYear, 0} THEN s.birth.year
    ELSE _extract_year(s.birth.raw)

SightingApprox(s) == s.approx \/ s.birth.approx \/ s.death.approx

(* the merge that takes the value of the call *)
MergeAsGiven(old, value) == value

Merge(old, value) == IF value # None /\ old = None THEN value ELSE old

NewPerson(source_id, s) ==
    LET joined == JoinTokens(SelectSeq(<<s.given, s.surname>>, LAMBDA v : v # None))
        display_name == IF s.name # None THEN s.name ELSE Strip(joined, Blank)
    IN  [ source_id |-> source_id,
          name |-> IF display_name # None THEN display_name
                   ELSE IF s.given # None THEN s.given ELSE s.surname,
          gen |-> IF s.gen # NoIndex THEN s.gen ELSE 0,
          given |-> s.given,
          surname |-> s.surname,
          birth |-> s.birth.raw,
          death |-> s.death.raw,
          sex |-> "",
          title |-> s.title,
          notes |-> s.notes,
          line_key |-> s.line_key,
          normalized_given |-> _normalize_name(s.given),
          normalized_surname |-> _normalize_name(s.surname),
          birth_year |-> SightingYear(s),
          approx |-> SightingApprox(s),
          page_index |-> NoIndex,
          line_index |-> NoIndex ]

MergedPerson(person, s) ==
    LET normalized_given == _normalize_name(s.given)
        normalized_surname == _normalize_name(s.surname)
        birth_year == SightingYear(s)
    IN  [ person EXCEPT
          !.given = Merge(@, s.given),
          !.surname = Merge(@, s.surname),
          !.birth = Merge(@, s.birth.raw),
          !.death = Merge(@, s.death.raw),
          !.name = Merge(@, s.name),
          !.gen = IF s.gen # NoIndex /\ @ = 0 THEN s.gen ELSE @,
          !.title = Merge(@, s.title),
          !.notes = Merge(@, s.notes),
          !.line_key = Merge(@, s.line_key),
          !.normalized_given = IF normalized_given # None THEN normalized_given ELSE @,
          !.normalized_surname = IF normalized_surname # None THEN normalized_surname ELSE @,
          !.birth_year = IF birth_year # NoYear THEN birth_year ELSE @,
          !.approx = @ \/ SightingApprox(s) ]

LookupByLineKeyNever(P, source_id, line_key) == NoId

LookupByLineKey(P, source_id, line_key) ==
    IF line_key = None THEN NoId
    ELSE First({ i \in 1..Len(P) : P[i].source_id = source_id /\ P[i].line_key = line_key })

LookupFuzzyLatest(P, source_id, s) ==
    LET normalized_given == _normalize_name(s.given)
        normalized_surname == _normalize_name(s.surname)
        ok == { i \in 1..Len(P) :
                  /\ P[i].source_id = source_id
                  /\ P[i].normalized_surname = normalized_surname
                  /\ FuzzyAccepts(P[i], s.given, normalized_given, SightingYear(s)) }
    IN  IF normalized_surname = None \/ ok = {} THEN NoId
        ELSE CHOOSE i \in ok : \A j \in ok : j <= i

(* the fuzzy query without its source filter *)
LookupFuzzyOfAnySource(P, source_id, s) ==
    LET normalized_given == _normalize_name(s.given)
        normalized_surname == _normalize_name(s.surname)
    IN  IF normalized_surname = None THEN NoId
        ELSE First({ i \in 1..Len(P) :
                /\ P[i].normalized_surname = normalized_surname
                /\ FuzzyAccepts(P[i], s.given, normalized_given, SightingYear(s)) })

LookupFuzzy(P, source_id, s) ==
    LET normalized_given == _normalize_name(s.given)
        normalized_surname == _normalize_name(s.surname)
    IN  IF normalized_surname = None THEN NoId
        ELSE First({ i \in 1..Len(P) :
                /\ P[i].source_id = source_id
                /\ P[i].normalized_surname = normalized_surname
                /\ FuzzyAccepts(P[i], s.given, normalized_given, SightingYear(s)) })

upsert_from_parse(P, source_id, s) ==
    LET keyed == LookupByLineKey(P, source_id, s.line_key)
        found == IF keyed # NoId THEN keyed ELSE LookupFuzzy(P, source_id, s)
    IN  IF found = NoId
        THEN [ persons |-> Append(P, NewPerson(source_id, s)),
               id |-> Len(P) + 1, created |-> TRUE ]
        ELSE [ persons |-> [P EXCEPT ![found] = MergedPerson(@, s)],
               id |-> found, created |-> FALSE ]

----------------------------------------------------------------------------
(* Family.upsert_couple and Family.ensure_for_single_parent: the table     *)
(* after the call, the id returned and whether the row was inserted        *)

(* the update of a found row with the approximate flag taken from the call *)
TouchRowAsGiven(row, line_key, approx, page_index) ==
    [ row EXCEPT
      !.line_key = Merge(@, line_key),
      !.approx = approx,
      !.page_index = IF page_index # NoIndex THEN page_index ELSE @ ]

TouchRow(row, line_key, approx, page_index) ==
    [ row EXCEPT
      !.line_key = Merge(@, line_key),
      !.approx = @ \/ approx,
      !.page_index = IF page_index # NoIndex THEN page_index ELSE @ ]

(* the constructor that puts every parent in the husband slot *)
ensure_in_husband_slot(F, P, source_id, parent_id, line_key, approx, page_index) ==
    LET existing == First({ i \in 1..Len(F) :
                        /\ F[i].source_id = source_id
                        /\ F[i].is_single_parent
                        /\ (F[i].husband_id = parent_id \/ F[i].wife_id = parent_id) })
    IN  IF existing # NoId
        THEN [ families |-> [F EXCEPT ![existing] = TouchRow(@, line_key, approx, page_index)],
               id |-> existing, created |-> FALSE ]
        ELSE [ families |-> Append(F, [ source_id |-> source_id,
                                        husband_id |-> parent_id,
                                        wife_id |-> NoId,
                                        is_single_parent |-> TRUE,
                                        line_key |-> line_key,
                                        approx |-> approx,
                                        page_index |-> page_index ]),
               id |-> Len(F) + 1, created |-> TRUE ]

ensure_for_single_parent(F, P, source_id, parent_id, line_key, approx, page_index) ==
    LET existing == First({ i \in 1..Len(F) :
                        /\ F[i].source_id = source_id
                        /\ F[i].is_single_parent
                        /\ (F[i].husband_id = parent_id \/ F[i].wife_id = parent_id) })
        female == parent_id \in 1..Len(P) /\ P[parent_id].sex = "F"
    IN  IF existing # NoId
        THEN [ families |-> [F EXCEPT ![existing] = TouchRow(@, line_key, approx, page_index)],
               id |-> existing, created |-> FALSE ]
        ELSE [ families |-> Append(F, [ source_id |-> source_id,
                                        husband_id |-> IF female THEN NoId ELSE parent_id,
                                        wife_id |-> IF female THEN parent_id ELSE NoId,
                                        is_single_parent |-> TRUE,
                                        line_key |-> line_key,
                                        approx |-> approx,
                                        page_index |-> page_index ]),
               id |-> Len(F) + 1, created |-> TRUE ]

SortedPairAsGiven(a, b) == <<a, b>>

SortedPair(a, b) == IF a <= b THEN <<a, b>> ELSE <<b, a>>

upsert_couple(F, P, source_id, person_a_id, person_b_id, line_key, approx, page_index) ==
    LET pair == SortedPair(person_a_id, person_b_id)
        existing == First({ i \in 1..Len(F) :
                        /\ F[i].source_id = source_id
                        /\ \/ (F[i].husband_id = pair[1] /\ F[i].wife_id = pair[2])
                           \/ (F[i].husband_id = pair[2] /\ F[i].wife_id = pair[1]) })
    IN  IF person_a_id = person_b_id
        THEN ensure_for_single_parent(F, P, source_id, person_a_id, line_key, approx, page_index)
        ELSE IF existing # NoId
        THEN [ families |-> [F EXCEPT ![existing] =
                               [TouchRow(@, line_key, approx, page_index)
                                  EXCEPT !.is_single_parent = FALSE]],
               id |-> existing, created |-> FALSE ]
        ELSE [ families |-> Append(F, [ source_id |-> source_id,
                                        husband_id |-> pair[1],
                                        wife_id |-> pair[2],
                                        is_single_parent |-> FALSE,
                                        line_key |-> line_key,
                                        approx |-> approx,
                                        page_index |-> page_index ]),
               id |-> Len(F) + 1, created |-> TRUE ]

----------------------------------------------------------------------------
(* Child.link: the table after the call, the id returned and whether the   *)
(* row was inserted                                                        *)

RECURSIVE MaxOrder(_, _, _)
MaxOrder(C, family_id, i) ==
    IF i > Len(C) THEN -1
    ELSE LET rest == MaxOrder(C, family_id, i + 1)
         IN  IF C[i].family_id = family_id /\ C[i].order_index > rest
             THEN C[i].order_index ELSE rest

NextOrderIndexOfTable(C, family_id) == Len(C)

NextOrderIndex(C, family_id) == MaxOrder(C, family_id, 1) + 1

(* the link made without the lookup of an existing one *)
link_unchecked(C, family_id, child_id, line_key, approx, page_index) ==
    [ children |-> Append(C, [ family_id |-> family_id,
                               person_id |-> child_id,
                               order_index |-> NextOrderIndex(C, family_id),
                               line_key |-> line_key,
                               approx |-> approx,
                               page_index |-> page_index ]),
      id |-> Len(C) + 1, created |-> TRUE ]

link(C, family_id, child_id, line_key, approx, page_index) ==
    LET existing == First({ i \in 1..Len(C) : C[i].family_id = family_id /\ C[i].person_id = child_id })
    IN  IF existing # NoId
        THEN [ children |-> [C EXCEPT ![existing] = TouchRow(@, line_key, approx, page_index)],
               id |-> existing, created |-> FALSE ]
        ELSE [ children |-> Append(C, [ family_id |-> family_id,
                                        person_id |-> child_id,
                                        order_index |-> NextOrderIndex(C, family_id),
                                        line_key |-> line_key,
                                        approx |-> approx,
                                        page_index |-> page_index ]),
               id |-> Len(C) + 1, created |-> TRUE ]

----------------------------------------------------------------------------
(* reparent_child of api/families.py: the tables after the request and its *)
(* response; a request answered with an error commits nothing              *)

(* the person's links are deleted, then the new link takes the ordinal     *)
(* after the largest one left in the target family                         *)
Reparented(F, C, person_id, target_family_id) ==
    [ families |-> F,
      children |-> Append(C, [ family_id |-> target_family_id,
                               person_id |-> person_id,
                               order_index |->
                                   (IF MaxOrder(C, target_family_id, 1) = -1 THEN 0
                                    ELSE MaxOrder(C, target_family_id, 1)) + 1,
                               line_key |-> None,
                               approx |-> FALSE,
                               page_index |-> NoIndex ]),
      status |-> "ok", family_id |-> target_family_id ]

Refused(F, C, status) ==
    [ families |-> F, children |-> C, status |-> status, family_id |-> NoId ]

(* the family of the new parent: the first one holding the parent, or a   *)
(* new one without source                                                  *)
ParentFamily(F, P, parent_id) ==
    LET family == First({ i \in 1..Len(F) :
                            F[i].husband_id = parent_id \/ F[i].wife_id = parent_id })
    IN  IF family # NoId THEN [families |-> F, id |-> family]
        ELSE [ families |-> Append(F, [ NoFamily EXCEPT
                   !.husband_id = IF P[parent_id].sex = "F" THEN NoId ELSE parent_id,
                   !.wife_id = IF P[parent_id].sex = "F" THEN parent_id ELSE NoId ]),
               id |-> Len(F) + 1 ]

reparent_child(P, F, C, person_id, new_family_id, new_parent_person_id) ==
    LET left == Deleted(C, { c \in 1..Len(C) : C[c].person_id = person_id }, NoChild)
    IN  IF ~Exists(P, person_id, NoPerson) THEN Refused(F, C, "404")
        ELSE IF new_family_id = NoId
        THEN IF new_parent_person_id = NoId THEN Refused(F, C, "400")
             ELSE IF ~Exists(P, new_parent_person_id, NoPerson) THEN Refused(F, C, "404")
             ELSE IF new_parent_person_id = person_id THEN Refused(F, C, "400")
             ELSE Reparented(ParentFamily(F, P, new_parent_person_id).families, left,
                             person_id, ParentFamily(F, P, new_parent_person_id).id)
        ELSE IF ~Exists(F, new_family_id, NoFamily) THEN Refused(F, C, "404")
        ELSE Reparented(F, left, person_id, new_family_id)

----------------------------------------------------------------------------
(* Fingerprints: sha1 of the payload, modelled by the payload itself       *)

_make_line_key(source_id, page_index, line_index, raw_line) ==
    <<source_id, page_index, line_index, Strip(raw_line, Blank)>>

_family_line_key(source_id, page_index, line_index, principal_id, spouse_id) ==
    <<"family", source_id, page_index, line_index, principal_id, spouse_id>>

_child_link_key(source_id, page_index, line_index, child_id, family_id) ==
    <<"child", source_id, page_index, line_index, family_id, child_id>>

----------------------------------------------------------------------------
(* Vitals as the parser hands them to the resolver                         *)

HedgeWords == { <<"a", "b", "t">>,
                <<"a", "b", "o", "u", "t">>,
                <<"a", "p", "p", "r", "o", "x">>,
                <<"a", "r", "o", "u", "n", "d">>,
                <<"c", "i", "r", "c", "a">>,
                <<"c", "a">>,
                <<"c">>,
                <<"b", "e", "f">>,
                <<"a", "f", "t">>,
                <<"b", "e", "f", "o", "r", "e">>,
                <<"a", "f", "t", "e", "r">> }

(* APPROX_WORD_RE.search: a hedge word standing between word boundaries    *)
HasHedgeWord(s) ==
    \E p \in 1..Len(s) : \E w \in HedgeWords :
        /\ p + Len(w) - 1 <= Len(s)
        /\ LowerText(SubSeq(s, p, p + Len(w) - 1)) = w
        /\ (p = 1 \/ ~IsWordChar(s[p - 1]))
        /\ (p + Len(w) > Len(s) \/ ~IsWordChar(s[p + Len(w)]))

_build_vital(value) ==
    IF value = None THEN NoVital
    ELSE LET cleaned == Strip(value, Blank)
         IN  [ raw |-> cleaned,
               approx |-> \/ HasHedgeWord(cleaned)
                          \/ \E p \in 1..Len(cleaned) : cleaned[p] = "?"
                          \/ (cleaned # <<>> /\ cleaned[Len(cleaned)] = "-"),
               year |-> _extract_year(cleaned) ]

----------------------------------------------------------------------------
(* Scanning helpers of the chart parser (parser.py).  The alphabet of the  *)
(* model is ASCII letters, digits, blank, newline and punctuation: tabs,   *)
(* carriage returns and the Unicode dashes and crosses are outside it.     *)

NL == "\n"

White == {" ", NL}

(* least position >= i of s holding a character outside cs, Len(s) + 1     *)
(* when there is none                                                      *)
RECURSIVE RunEnd(_, _, _)
RunEnd(s, cs, i) == IF i > Len(s) THEN i
                    ELSE IF s[i] \notin cs THEN i ELSE RunEnd(s, cs, i + 1)

SkipWs(s, i) == RunEnd(s, White, i)

(* the character at position i, "" beyond the ends *)
At(s, i) == IF i >= 1 /\ i <= Len(s) THEN s[i] ELSE ""

HasAt(s, i, w) == i >= 1 /\ i + Len(w) - 1 <= Len(s) /\ SubSeq(s, i, i + Len(w) - 1) = w

(* w is lower case: a match under re.IGNORECASE *)
HasAtCI(s, i, w) ==
    i >= 1 /\ i + Len(w) - 1 <= Len(s) /\ LowerText(SubSeq(s, i, i + Len(w) - 1)) = w

AtLineStart(s, i) == i = 1 \/ s[i - 1] = NL

NoHit == [end |-> 0, out |-> <<>>]

(* str.split(c) *)
RECURSIVE SplitOn(_, _)
SplitOn(s, c) ==
    LET p == FindFrom(s, {c}, 1)
    IN  IF p = 0 THEN <<s>>
        ELSE <<Upto(s, p - 1)>> \o SplitOn(From(s, p + 1), c)

RECURSIVE Concat(_)
Concat(ss) == IF ss = <<>> THEN <<>> ELSE ss[1] \o Concat(Tail(ss))

RECURSIVE JoinWith(_, _)
JoinWith(ss, sep) == IF ss = <<>> THEN <<>>
                     ELSE IF Len(ss) = 1 THEN ss[1]
                     ELSE ss[1] \o sep \o JoinWith(Tail(ss), sep)

SetMax(S) == CHOOSE x \in S : \A y \in S : y <= x

SetMin(S) == CHOOSE x \in S : \A y \in S : x <= y

----------------------------------------------------------------------------
(* Line classification patterns                                            *)

XMarks == {"x", "X"}

GenChars == Digits \cup {"I", "l", "|", "O"}

AltGenChars == Digits \cup {"I", "V", "X", "i", "v", "x"}

NoMatch == [ok |-> FALSE, gen |-> <<>>, text |-> <<>>]

(* PERSON_PATTERN from its generation token on: one or two token         *)
(* characters, blanks, two dashes, at least one blank, the text           *)
PersonTail(s, k) ==
    LET e == RunEnd(s, GenChars, k)
        d == SkipWs(s, e)
        r == SkipWs(s, d + 2)
    IN  IF (e - k) \in 1..2 /\ HasAt(s, d, <<"-", "-">>) /\ r > d + 2
        THEN [ok |-> TRUE, gen |-> SubSeq(s, k, e - 1), text |-> From(s, r)]
        ELSE NoMatch

(* PERSON_PATTERN_ALT from its generation token on: one to three token    *)
(* characters, a period, at least one blank, the text                     *)
AltTail(s, k) ==
    LET e == RunEnd(s, AltGenChars, k)
        r == SkipWs(s, e + 1)
    IN  IF (e - k) \in 1..3 /\ At(s, e) = "." /\ r > e + 1
        THEN [ok |-> TRUE, gen |-> SubSeq(s, k, e - 1), text |-> From(s, r)]
        ELSE NoMatch

(* leading blanks and up to two groups of crosses, each with its blanks,   *)
(* followed by the tail of the primary or of the alternative pattern: the  *)
(* regex engine prefers the longest first group of crosses, then the       *)
(* longest second one                                                      *)
Prefixed(s, alt) ==
    LET Rest(t, k) == IF alt THEN AltTail(t, k) ELSE PersonTail(t, k)
        i0 == SkipWs(s, 1)
        AfterFirst(a1) == SkipWs(s, i0 + a1)
        Start(a1, a2) == IF a1 = 0 THEN i0
                         ELSE IF a2 = 0 THEN AfterFirst(a1)
                         ELSE SkipWs(s, AfterFirst(a1) + a2)
        Second(a1) == IF a1 = 0 THEN 0
                      ELSE RunEnd(s, XMarks, AfterFirst(a1)) - AfterFirst(a1)
        ways == { w \in (0..(RunEnd(s, XMarks, i0) - i0)) \X (0..Len(s)) :
                    w[2] <= Second(w[1]) /\ Rest(s, Start(w[1], w[2])).ok }
        best == CHOOSE w \in ways :
                    \A v \in ways : v[1] < w[1] \/ (v[1] = w[1] /\ v[2] <= w[2])
    IN  IF ways = {} THEN NoMatch ELSE Rest(s, Start(best[1], best[2]))

PERSON_PATTERN(s) == Prefixed(s, FALSE)

PERSON_PATTERN_ALT(s) == Prefixed(s, TRUE)

SPOUSE_PATTERN(s) ==
    LET q == SkipWs(s, 1)
    IN  IF HasAtCI(s, q, <<"s", "p", "-">>)
        THEN [ok |-> TRUE, gen |-> <<>>, text |-> From(s, SkipWs(s, q + 3))]
        ELSE NoMatch

MonthNames ==
    { <<"j","a","n">>, <<"j","a","n","u","a","r","y">>,
      <<"f","e","b">>, <<"f","e","b","r","u","a","r","y">>,
      <<"m","a","r">>, <<"m","a","r","c","h">>,
      <<"a","p","r">>, <<"a","p","r","i","l">>,
      <<"m","a","y">>,
      <<"j","u","n">>, <<"j","u","n","e">>,
      <<"j","u","l">>, <<"j","u","l","y">>,
      <<"a","u","g">>, <<"a","u","g","u","s","t">>,
      <<"s","e","p">>, <<"s","e","p","t">>, <<"s","e","p","t","e","m","b","e","r">>,
      <<"o","c","t">>, <<"o","c","t","o","b","e","r">>,
      <<"n","o","v">>, <<"n","o","v","e","m","b","e","r">>,
      <<"d","e","c">>, <<"d","e","c","e","m","b","e","r">> }

TitleWords ==
    { <<"d","e","s","c","e","n","d","a","n","c","y">>,
      <<"d","e","s","c","e","n","d","e","n","c","y">>,
      <<"d","e","s","c","e","n","d","a","n","t","s">>,
      <<"g","e","n","e","a","l","o","g","y">> }

AllDigits(t) == t # <<>> /\ \A i \in 1..Len(t) : t[i] \in Digits

(* HEADER_PATTERNS: "Page 12", "March 1998", "Descendancy ..." *)
_is_header(line) ==
    LET ts == Tokens(line)
        q == SkipWs(line, 1)
    IN  \/ Len(ts) = 2 /\ LowerText(ts[1]) = <<"p", "a", "g", "e">> /\ AllDigits(ts[2])
        \/ Len(ts) = 2 /\ LowerText(ts[1]) \in MonthNames
                       /\ AllDigits(ts[2]) /\ Len(ts[2]) = 4
        \/ \E w \in TitleWords : HasAtCI(line, q, w) /\ ~IsWordChar(At(line, q + Len(w)))

----------------------------------------------------------------------------
(* normalize_ocr_text: a page text to its record lines                     *)

(* (\w)-\n(\w) -> \1\2 *)
Dehyphenated(s, i) ==
    IF /\ IsWordChar(s[i]) /\ At(s, i + 1) = "-" /\ At(s, i + 2) = NL
       /\ IsWordChar(At(s, i + 3))
    THEN [end |-> i + 4, out |-> <<s[i], s[i + 3]>>]
    ELSE NoHit

(* (?m)^(\s*sp)\s*[-~]\s* -> \1-<blank> *)
SpouseMarker(s, i) ==
    LET q == SkipWs(s, i)
        r == SkipWs(s, q + 2)
    IN  IF AtLineStart(s, i) /\ HasAtCI(s, q, <<"s", "p">>) /\ At(s, r) \in {"-", "~"}
        THEN [end |-> SkipWs(s, r + 1), out |-> SubSeq(s, i, q + 1) \o <<"-", " ">>]
        ELSE NoHit

(* (\))\s*[X+*]?\s*sp- -> \1 sp- *)
InlineSpouse(s, i) ==
    LET a == SkipWs(s, i + 1)
        b == IF At(s, a) \in {"X", "x", "+", "*"} THEN SkipWs(s, a + 1) ELSE a
    IN  IF s[i] = ")" /\ HasAtCI(s, b, <<"s", "p", "-">>)
        THEN [end |-> b + 3, out |-> <<")", " ", "s", "p", "-">>]
        ELSE NoHit

(* \s*(\d+)\s*[*+]\s*- from position q *)
StarTail(s, q) ==
    LET a == SkipWs(s, q)
        b == RunEnd(s, Digits, a)
        c == SkipWs(s, b)
        d == SkipWs(s, c + 1)
    IN  IF b > a /\ At(s, c) \in {"*", "+"} /\ At(s, d) = "-"
        THEN [end |-> d + 1, out |-> SubSeq(s, a, b - 1) \o <<"-", "-", " ">>]
        ELSE NoHit

(* (^|\)|\d)\s*(\d+)\s*[*+]{1}\s*- -> \1\2--<blank> *)
StarMarker(s, i) ==
    LET first == IF AtLineStart(s, i) THEN StarTail(s, i) ELSE NoHit
        second == IF s[i] = ")" \/ s[i] \in Digits THEN StarTail(s, i + 1) ELSE NoHit
    IN  IF first.end > 0 THEN first
        ELSE IF second.end > 0 THEN [end |-> second.end, out |-> <<s[i]>> \o second.out]
        ELSE NoHit

(* (?m)^(\s*\d+)\s*-{1,2}\s* -> \1--<blank> *)
GenMarker(s, i) ==
    LET a == SkipWs(s, i)
        b == RunEnd(s, Digits, a)
        c == SkipWs(s, b)
        n == IF At(s, c + 1) = "-" THEN 2 ELSE 1
    IN  IF AtLineStart(s, i) /\ b > a /\ At(s, c) = "-"
        THEN [end |-> SkipWs(s, c + n), out |-> SubSeq(s, i, b - 1) \o <<"-", "-", " ">>]
        ELSE NoHit

(* -\d+(?=\b) -> "" *)
IdTag(s, i) ==
    LET e == RunEnd(s, Digits, i + 1)
    IN  IF s[i] = "-" /\ e > i + 1 /\ ~IsWordChar(At(s, e))
        THEN [end |-> e, out |-> <<>>]
        ELSE NoHit

(* re.sub: left to right; the rule gives the end (exclusive) and the      *)
(* replacement of its match starting at i, or NoHit                        *)
HitAt(rule, s, i) ==
    CASE rule = "dehyphenate" -> Dehyphenated(s, i)
      [] rule = "spouse marker" -> SpouseMarker(s, i)
      [] rule = "inline spouse" -> InlineSpouse(s, i)
      [] rule = "star marker" -> StarMarker(s, i)
      [] rule = "gen marker" -> GenMarker(s, i)
      [] rule = "id tag" -> IdTag(s, i)

(* hits holds the positions where the rule matches, k the next to look at *)
RECURSIVE Replaced(_, _, _, _, _)
Replaced(s, i, rule, hits, k) ==
    IF k > Len(hits) THEN From(s, i)
    ELSE IF hits[k] < i THEN Replaced(s, i, rule, hits, k + 1)
    ELSE LET h == HitAt(rule, s, hits[k])
         IN  SubSeq(s, i, hits[k] - 1) \o h.out \o Replaced(s, h.end, rule, hits, k + 1)

Rewrite(s, rule) ==
    Replaced(s, 1, rule,
             SelectSeq(Positions(s), LAMBDA p : HitAt(rule, s, p).end > 0), 1)

(* end (exclusive) of a match of (\d+--|[IVXivx0-9]{1,3}\.|sp-) at i, 0    *)
(* when there is none                                                      *)
RecordMarkerEnd(s, i) ==
    LET d == RunEnd(s, Digits, i)
        e == RunEnd(s, AltGenChars, i)
    IN  IF d > i /\ HasAt(s, d, <<"-", "-">>) THEN d + 2
        ELSE IF (e - i) \in 1..3 /\ At(s, e) = "." THEN e + 1
        ELSE IF HasAtCI(s, i, <<"s", "p", "-">>) THEN i + 3
        ELSE 0

(* pattern.finditer(line): the start of every match; hits holds the       *)
(* positions where the pattern matches, k the next to look at              *)
RECURSIVE Unconsumed(_, _, _, _)
Unconsumed(s, i, hits, k) ==
    IF k > Len(hits) THEN <<>>
    ELSE IF hits[k] < i THEN Unconsumed(s, i, hits, k + 1)
    ELSE <<hits[k]>> \o Unconsumed(s, RecordMarkerEnd(s, hits[k]), hits, k + 1)

RecordMarkers(s) ==
    Unconsumed(s, 1, SelectSeq(Positions(s), LAMBDA p : RecordMarkerEnd(s, p) > 0), 1)

_split_records(line) ==
    LET matches == RecordMarkers(line)
        n == Len(matches)
        segment(k) == Strip(SubSeq(line, matches[k],
                                   IF k < n THEN matches[k + 1] - 1 ELSE Len(line)), White)
        segments == SelectSeq([k \in 1..n |-> segment(k)], LAMBDA g : g # <<>>)
        prefix == Strip(Upto(line, matches[1] - 1), White)
    IN  IF n = 0 THEN <<line>>
        ELSE IF prefix # <<>> /\ segments # <<>>
        THEN <<Strip(prefix \o <<" ">> \o segments[1], White)>> \o Tail(segments)
        ELSE segments

IsRecord(record) ==
    PERSON_PATTERN(record).ok \/ PERSON_PATTERN_ALT(record).ok \/ SPOUSE_PATTERN(record).ok

(* the loop over segments: a marker segment opens a record, any other      *)
(* segment continues the open one; buffer = <<>> is buffer = None          *)
RECURSIVE Buffered(_, _, _)
Buffered(segments, k, buffer) ==
    IF k > Len(segments) THEN (IF buffer # <<>> THEN <<buffer>> ELSE <<>>)
    ELSE IF IsRecord(segments[k])
    THEN (IF buffer # <<>> THEN <<buffer>> ELSE <<>>) \o Buffered(segments, k + 1, segments[k])
    ELSE Buffered(segments, k + 1,
                  IF buffer = <<>> THEN segments[k] ELSE buffer \o <<" ">> \o segments[k])

(* the five re.sub calls, in the order of the code *)
Substitutions ==
    <<"dehyphenate", "spouse marker", "inline spouse", "star marker", "gen marker">>

RECURSIVE Substituted(_, _)
Substituted(text_value, k) ==
    IF k > Len(Substitutions) THEN text_value
    ELSE Substituted(Rewrite(text_value, Substitutions[k]), k + 1)

(* the segments of one stripped line: none for a blank line or a header *)
SegmentsOf(stripped) ==
    IF stripped = <<>> \/ _is_header(stripped) THEN <<>>
    ELSE _split_records(Collapse(stripped))

(* the segments of the lines raw_lines[k..], in order *)
RECURSIVE Segments(_, _)
Segments(raw_lines, k) ==
    IF k > Len(raw_lines) THEN <<>>
    ELSE SegmentsOf(Strip(raw_lines[k], White)) \o Segments(raw_lines, k + 1)

normalize_ocr_text(page) ==
    Buffered(Segments(SplitOn(Substituted(page, 1), NL), 1), 1, <<>>)

----------------------------------------------------------------------------
(* _parse_person_entry: the text after the marker to names, notes, vitals  *)

(* _split_vitals: <<birth_part, death_part>> *)
AfterLetter(cleaned) ==
    LET rest == IF At(cleaned, 2) = "." THEN From(cleaned, 3) ELSE From(cleaned, 2)
        body == LStrip(rest, White)
    IN  IF body # <<>> THEN Strip(body, White)
        ELSE IF At(cleaned, 2) = "." THEN <<".">>
        ELSE <<>>

(* ^(.+?)-\s*liv(?:ing)?\.?$ : the position of the dash, 0 when none *)
LivingDash(cleaned) ==
    LET Ends(p) ==
            LET q == SkipWs(cleaned, p + 1)
                w == LowerText(From(cleaned, q))
            IN  w \in { <<"l","i","v">>, <<"l","i","v",".">>,
                        <<"l","i","v","i","n","g">>, <<"l","i","v","i","n","g",".">> }
        ps == { p \in 2..Len(cleaned) : cleaned[p] = "-" /\ Ends(p) }
    IN  IF ps = {} THEN 0 ELSE SetMin(ps)

_split_vitals(vital_text) ==
    LET cleaned == Strip(vital_text, White)
        first == LowerChar(At(cleaned, 1))
        dash == FindFrom(cleaned, {"-"}, 1)
    IN  IF cleaned = <<>> THEN <<None, None>>
        ELSE IF first = "b" /\ AfterLetter(cleaned) # <<>> THEN <<AfterLetter(cleaned), None>>
        ELSE IF first = "d" /\ AfterLetter(cleaned) # <<>> THEN <<None, AfterLetter(cleaned)>>
        ELSE IF LivingDash(cleaned) > 0
        THEN <<Strip(Upto(cleaned, LivingDash(cleaned) - 1), White), None>>
        ELSE IF dash > 0
        THEN <<Strip(Upto(cleaned, dash - 1), White), Strip(From(cleaned, dash + 1), White)>>
        ELSE <<cleaned, None>>

(* alpha and alpha.upper() == alpha *)
AllCaps(token) ==
    \E p \in 1..Len(token) : IsAlpha(token[p]) /\ \A q \in 1..Len(token) : token[q] \notin LowerSet

(* the components, given name_part.split() and the index of the last      *)
(* token in capitals, 0 when there is none                                *)
NameComponents(tokens, last_caps) ==
    LET surname_idx == IF last_caps > 0 THEN last_caps ELSE Len(tokens)
        surname == Strip(tokens[surname_idx], {","})
    IN  IF tokens = <<>> THEN [given |-> None, surname |-> None, title |-> None]
        ELSE IF last_caps = 0 /\ Len(tokens) = 1
        THEN [given |-> Strip(tokens[1], {","}), surname |-> None, title |-> None]
        ELSE [ given |-> JoinTokens(SubSeq(tokens, 1, surname_idx - 1)),
               surname |-> IF surname = <<"?">> THEN None ELSE surname,
               title |-> Strip(JoinTokens(SubSeq(tokens, surname_idx + 1, Len(tokens))),
                               {",", " "}) ]

LastCaps(tokens) == SetMax({0} \cup { i \in 1..Len(tokens) : AllCaps(tokens[i]) })

SplitTokens(tokens) == NameComponents(tokens, LastCaps(tokens))

_split_name_components(name_part) == SplitTokens(Tokens(name_part))

(* re.findall(r"-(\d+)", name_part): every dash that digits follow *)
IdMatches(s) ==
    LET hits == SelectSeq(Positions(s), LAMBDA p : s[p] = "-" /\ RunEnd(s, Digits, p + 1) > p + 1)
    IN  [k \in 1..Len(hits) |-> SubSeq(s, hits[k] + 1, RunEnd(s, Digits, hits[k] + 1) - 1)]

Contains(s, c) == \E p \in 1..Len(s) : s[p] = c

OpenEndedAtEndOnly(vital_text) == vital_text # <<>> /\ vital_text[Len(vital_text)] = "-"

(* trimmed_vitals.startswith('-') or trimmed_vitals.endswith('-') *)
OpenEnded(vital_text) ==
    vital_text # <<>> /\ (vital_text[1] = "-" \/ vital_text[Len(vital_text)] = "-")

(* the returned dict, given the cleaned name, its components, the notes,   *)
(* the vital text, and the birth and death vitals                          *)
EntryDict(name_part, names, notes_parts, vital_text, birth_info, death_info) ==
    [ display |-> IF name_part # <<>> THEN name_part
                  ELSE <<"U", "n", "k", "n", "o", "w", "n">>,
      given |-> names.given,
      surname |-> names.surname,
      title |-> names.title,
      notes |-> JoinWith(notes_parts, <<";", " ">>),
      birth |-> birth_info,
      death |-> death_info,
      approx |-> \/ birth_info.approx
                 \/ death_info.approx
                 \/ OpenEnded(vital_text)
                 \/ Contains(name_part, "?")
                 \/ Contains(vital_text, "?") ]

(* the id notes: one "ID n" for each id_matches[k..] *)
RECURSIVE IdNotes(_, _)
IdNotes(id_matches, k) ==
    IF k > Len(id_matches) THEN <<>>
    ELSE <<(<<"I", "D", " ">> \o id_matches[k])>> \o IdNotes(id_matches, k + 1)

(* the entry, given the cleaned name, the tail after the vitals, the id    *)
(* matches, the vital text and its two parts                               *)
EntryOfParts(name_part, tail, id_matches, vital_text, parts) ==
    EntryDict(name_part, _split_name_components(name_part),
              (IF tail # <<>> THEN <<tail>> ELSE <<>>) \o IdNotes(id_matches, 1),
              vital_text, _build_vital(parts[1]), _build_vital(parts[2]))

(* the entry, given the name part before the id tags are removed, the     *)
(* vital text and the tail                                                 *)
EntryOfName(name_0, vital_text, tail) ==
    EntryOfParts(Strip(Collapse(Rewrite(name_0, "id tag")), {" ", ",", ";"}), tail,
                 IdMatches(name_0), vital_text,
                 IF vital_text = None THEN <<None, None>> ELSE _split_vitals(vital_text))

(* the entry, given the stripped text and the positions of the first      *)
(* parenthesis pair, 0 when there is none                                  *)
EntryOfMatch(working, open, close) ==
    IF close > 0
    THEN EntryOfName(Strip(Upto(working, open - 1), White),
                     Strip(SubSeq(working, open + 1, close - 1), White),
                     Strip(From(working, close + 1), {" ", ",", ";"}))
    ELSE EntryOfName(working, None, <<>>)

(* re.search of a parenthesised group without a closing parenthesis in it *)
VitalMatch(working, open) ==
    EntryOfMatch(working, open, IF open = 0 THEN 0 ELSE FindFrom(working, {")"}, open + 1))

_parse_person_entry(text_value) ==
    VitalMatch(Strip(text_value, White), FindFrom(Strip(text_value, White), {"("}, 1))

----------------------------------------------------------------------------
(* Generation tokens                                                       *)

ROMAN_MAP(c) == CASE c = "I" -> 1 [] c = "V" -> 5 [] c = "X" -> 10 [] c = "L" -> 50
                  [] c = "C" -> 100 [] c = "D" -> 500 [] c = "M" -> 1000

RomanChars == {"I", "V", "X", "L", "C", "D", "M"}

(* the loop over reversed(s): position i, the value to its right, the total *)
RECURSIVE RomanTotal(_, _, _, _)
RomanTotal(s, i, prev_value, total) ==
    IF i = 0 THEN total
    ELSE LET value == ROMAN_MAP(s[i])
         IN  RomanTotal(s, i - 1, value,
                        IF value < prev_value THEN total - value ELSE total + value)

_roman_to_int(s) ==
    LET u == UpperText(s)
    IN  IF u = <<>> \/ \E i \in 1..Len(u) : u[i] \notin RomanChars THEN NoIndex
        ELSE RomanTotal(u, Len(u), 0, 0)

GEN_CHAR_MAP(c) == IF c \in {"I", "l", "|"} THEN "1"
                   ELSE IF c \in {"O", "o"} THEN "0" ELSE c

(* the generation of a person line, NoIndex for None *)
Generation(raw_gen, alt) ==
    LET normalized_gen == SelectSeq([i \in 1..Len(raw_gen) |-> GEN_CHAR_MAP(raw_gen[i])],
                                    LAMBDA c : c \in Digits)
    IN  IF alt
        THEN (IF AllDigits(raw_gen) THEN ToInt(raw_gen) ELSE _roman_to_int(raw_gen))
        ELSE (IF normalized_gen # <<>> THEN ToInt(normalized_gen) ELSE NoIndex)

(* what extract_persons_pass1 makes of one record line before it touches   *)
(* the store                                                               *)
(* a line that one of the person patterns matches: flagged when its       *)
(* generation token gives no number                                        *)
PersonLine(match, gen) ==
    IF gen = NoIndex THEN <<"flagged", NoIndex, <<>>>>
    ELSE <<"person", gen, match.text>>

(* the kind of the line, its generation and the text of its entry *)
LineMatch(person_match, alt_match, spouse_match) ==
    IF person_match.ok
    THEN PersonLine(person_match, Generation(Strip(person_match.gen, White), FALSE))
    ELSE IF alt_match.ok
    THEN PersonLine(alt_match, Generation(Strip(alt_match.gen, White), TRUE))
    ELSE IF spouse_match.ok THEN <<"spouse", NoIndex, spouse_match.text>>
    ELSE <<"other", NoIndex, <<>>>>

Classified(m) ==
    [kind |-> m[1], gen |-> m[2], data |-> _parse_person_entry(Strip(m[3], White))]

LineEntry(raw_line) ==
    Classified(LineMatch(PERSON_PATTERN(raw_line), PERSON_PATTERN_ALT(raw_line),
                         SPOUSE_PATTERN(raw_line)))

----------------------------------------------------------------------------
(* Chart lines and page texts of the parse runs                            *)

(* 1-- Andrew NEWCOMB Lt.-117 (1640-1706) *)
lineAndrew ==
    <<"1", "-", "-", " ", "A", "n", "d", "r", "e", "w", " ", "N", "E", "W",
      "C", "O", "M", "B", " ", "L", "t", ".", "-", "1", "1", "7", " ", "(",
      "1", "6", "4", "0", "-", "1", "7", "0", "6", ")">>

(* sp-Sarah-118 (-1674) *)
lineSarah ==
    <<"s", "p", "-", "S", "a", "r", "a", "h", "-", "1", "1", "8", " ", "(",
      "-", "1", "6", "7", "4", ")">>

(* 2-- Simon NEWCOMB-1761 (1662) *)
lineSimon ==
    <<"2", "-", "-", " ", "S", "i", "m", "o", "n", " ", "N", "E", "W", "C",
      "O", "M", "B", "-", "1", "7", "6", "1", " ", "(", "1", "6", "6", "2",
      ")">>

(* 1-- Nel DOE *)
lineNel ==
    <<"1", "-", "-", " ", "N", "e", "l", " ", "D", "O", "E">>

(* 1-- Nel DOE (1900) *)
lineNel1900 ==
    <<"1", "-", "-", " ", "N", "e", "l", " ", "D", "O", "E", " ", "(", "1",
      "9", "0", "0", ")">>

(* 1-- Nel DOE (1902) *)
lineNel1902 ==
    <<"1", "-", "-", " ", "N", "e", "l", " ", "D", "O", "E", " ", "(", "1",
      "9", "0", "2", ")">>

(* 1-- Nel DOE (1904) *)
lineNel1904 ==
    <<"1", "-", "-", " ", "N", "e", "l", " ", "D", "O", "E", " ", "(", "1",
      "9", "0", "4", ")">>

(* 2-- Al ROE (-1700) *)
lineAl ==
    <<"2", "-", "-", " ", "A", "l", " ", "R", "O", "E", " ", "(", "-", "1",
      "7", "0", "0", ")">>

(* 3-- Cy MOE *)
lineCy ==
    <<"3", "-", "-", " ", "C", "y", " ", "M", "O", "E">>

(* sp-Ann POE *)
lineAnn ==
    <<"s", "p", "-", "A", "n", "n", " ", "P", "O", "E">>

(* see note *)
lineNote ==
    <<"s", "e", "e", " ", "n", "o", "t", "e">>

(* 1V. Bo LOE *)
lineMixed ==
    <<"1", "V", ".", " ", "B", "o", " ", "L", "O", "E">>

(* 0-- Bo LOE *)
lineZero ==
    <<"0", "-", "-", " ", "B", "o", " ", "L", "O", "E">>

(* 2-- Nel DOE *)
lineJunior ==
    <<"2", "-", "-", " ", "N", "e", "l", " ", "D", "O", "E">>

(* sp-Nell DOE *)
lineNell ==
    <<"s", "p", "-", "N", "e", "l", "l", " ", "D", "O", "E">>

ScenarioLines == {lineAndrew, lineSarah, lineSimon}

(* a chart with anomalies: person lines of three generations, a spouse     *)
(* line, a line without marker and a line whose generation token mixes a   *)
(* digit with a Roman numeral                                              *)
ChartLines == {lineNel, lineAl, lineCy, lineAnn, lineNote, lineMixed}

(* a lineage: person lines of generations 0 to 3, one of them a child with *)
(* the name of the root, a spouse line, and a spouse line with nearly the  *)
(* name of the root                                                        *)
LineageLines == {lineZero, lineNel, lineJunior, lineAl, lineCy, lineAnn, lineNell}

Catalog == ScenarioLines \cup {lineNel, lineNel1900, lineNel1902, lineNel1904}

MaxRuns == 2

NumPages == 2

MaxLines == 2

ScenarioMaxLines == 3

ChartMaxLines == 3

LineageMaxLines == 3

(* the page texts of at most n lines of L, one line per record *)
PagesOver(L, n) ==
    { JoinWith(ls, <<NL>>) : ls \in UNION { [1..k -> L] : k \in 0..n } }

Documents == [1..NumPages -> PagesOver(Catalog, MaxLines)]

ScenarioDocuments == { <<p>> : p \in PagesOver(ScenarioLines, ScenarioMaxLines) }

ChartDocuments == { <<p>> : p \in PagesOver(ChartLines, ChartMaxLines) }

LineageDocuments == { <<p>> : p \in PagesOver(LineageLines, LineageMaxLines) }

(* page_indexes = None *)
NoPageIndexes == <<NoIndex>>

PageSelections == {NoPageIndexes} \cup { <<k>> : k \in 0..(NumPages - 1) }

(* normalize_ocr_text and the line classification, computed once for the   *)
(* page texts above: pairs of an argument and its value                    *)
NormalizedPages ==
    { <<p, normalize_ocr_text(p)>> :
        p \in PagesOver(Catalog, MaxLines) \cup PagesOver(ScenarioLines, ScenarioMaxLines)
                \cup PagesOver(ChartLines, ChartMaxLines)
                \cup PagesOver(LineageLines, LineageMaxLines) }

Normalized(page) == (CHOOSE m \in NormalizedPages : m[1] = page)[2]

Entries ==
    { <<l, LineEntry(l)>> :
        l \in UNION { { m[2][k] : k \in 1..Len(m[2]) } : m \in NormalizedPages } }

Entry(raw_line) == (CHOOSE m \in Entries : m[1] = raw_line)[2]

----------------------------------------------------------------------------
(* extract_persons_pass1                                                   *)

(* enumerate(normalized) with the page index *)
PageLines(page_index, normalized) ==
    [k \in 1..Len(normalized) |-> <<page_index, k - 1, normalized[k]>>]

(* the lines of the pages indexes[k..] *)
RECURSIVE LinesOf(_, _, _)
LinesOf(doc, indexes, k) ==
    IF k > Len(indexes) THEN <<>>
    ELSE (IF indexes[k] < Len(doc)
          THEN PageLines(indexes[k], Normalized(doc[indexes[k] + 1]))
          ELSE <<>>) \o LinesOf(doc, indexes, k + 1)

iter_lines(doc, page_indexes) ==
    LinesOf(doc, IF page_indexes = NoPageIndexes THEN [k \in 1..Len(doc) |-> k - 1]
                 ELSE page_indexes, 1)

PersonRecord(person_id, gen, page_index, line_index, is_spouse) ==
    [ person_id |-> person_id, gen |-> gen, page_index |-> page_index,
      line_index |-> line_index, is_spouse |-> is_spouse ]

NoRecord == PersonRecord(NoId, NoIndex, NoIndex, NoIndex, FALSE)

_update_person_location(P, id, page_index, line_index) ==
    [P EXCEPT ![id].page_index = page_index, ![id].line_index = line_index]

(* the loop over the lines: st holds the Person table, person_records,     *)
(* flagged_lines and last_principal_person                                 *)
(* the state after the person r of a record line is resolved: its         *)
(* location, its record, and the last principal when it is one             *)
Recorded(st, r, record) ==
    [ st EXCEPT
      !.persons = _update_person_location(r.persons, r.id,
                                          record.page_index, record.line_index),
      !.person_records = Append(@, [record EXCEPT !.person_id = r.id]),
      !.last_principal_person =
          IF record.is_spouse THEN @ ELSE [record EXCEPT !.person_id = r.id] ]

(* the arguments of upsert_from_parse for a line of generation gen with    *)
(* entry e                                                                 *)
LineSighting(source_id, page_index, line_index, raw_line, e, gen) ==
    [ given |-> e.data.given, surname |-> e.data.surname,
      name |-> e.data.display, gen |-> gen,
      title |-> e.data.title, notes |-> e.data.notes,
      birth |-> e.data.birth, death |-> e.data.death,
      line_key |-> _make_line_key(source_id, page_index, line_index, raw_line),
      approx |-> e.data.approx ]

(* a person or spouse line of generation gen with entry e *)
RecordLine(st, source_id, page_index, line_index, raw_line, e, gen) ==
    Recorded(st,
             upsert_from_parse(st.persons, source_id,
                 LineSighting(source_id, page_index, line_index, raw_line, e, gen)),
             PersonRecord(NoId, gen, page_index, line_index, e.kind = "spouse"))

(* the loop body with a flagged line closing the open principal *)
Pass1LineClosing(st, source_id, page_index, line_index, raw_line, e) ==
    CASE e.kind = "flagged" -> [st EXCEPT !.flagged_lines = Append(@, raw_line),
                                          !.last_principal_person = NoRecord]
      [] e.kind = "person" \/ (e.kind = "spouse" /\ st.last_principal_person # NoRecord) ->
            RecordLine(st, source_id, page_index, line_index, raw_line, e,
                       IF e.kind = "person" THEN e.gen ELSE st.last_principal_person.gen)
      [] OTHER -> st

(* one line of the loop, e its entry *)
Pass1Line(st, source_id, page_index, line_index, raw_line, e) ==
    CASE e.kind = "flagged" -> [st EXCEPT !.flagged_lines = Append(@, raw_line)]
      [] e.kind = "person" \/ (e.kind = "spouse" /\ st.last_principal_person # NoRecord) ->
            RecordLine(st, source_id, page_index, line_index, raw_line, e,
                       IF e.kind = "person" THEN e.gen ELSE st.last_principal_person.gen)
      [] OTHER -> st

RECURSIVE Pass1Lines(_, _, _, _)
Pass1Lines(st, source_id, lines, i) ==
    IF i > Len(lines) THEN st
    ELSE Pass1Lines(Pass1Line(st, source_id, lines[i][1], lines[i][2], lines[i][3],
                              Entry(lines[i][3])),
                    source_id, lines, i + 1)

extract_persons_pass1(P, source_id, doc, page_indexes) ==
    Pass1Lines([ persons |-> P, person_records |-> <<>>, flagged_lines |-> <<>>,
                 last_principal_person |-> NoRecord ],
               source_id, iter_lines(doc, page_indexes), 1)

----------------------------------------------------------------------------
(* build_relationships_pass2                                               *)

(* person_records.index(record) *)
IndexOf(person_records, record) ==
    SetMin({ k \in 1..Len(person_records) : person_records[k] = record })

(* the backward scan for the most recent non-spouse record of the same     *)
(* generation, 0 when there is none                                        *)
PrincipalOf(person_records, record) ==
    LET before == { k \in 1..(IndexOf(person_records, record) - 1) :
                      /\ person_records[k].gen = record.gen
                      /\ ~person_records[k].is_spouse }
    IN  IF before = {} THEN 0 ELSE SetMax(before)

(* the spouse record right after the parent record, NoId when there is none *)
SpouseOf(person_records, parent_record) ==
    LET parent_idx == IndexOf(person_records, parent_record)
    IN  IF /\ parent_idx + 1 <= Len(person_records)
           /\ person_records[parent_idx + 1].is_spouse
           /\ person_records[parent_idx + 1].gen = parent_record.gen
        THEN person_records[parent_idx + 1].person_id
        ELSE NoId

NoCache == [pair \in {} |-> NoId]

(* bool(person and person.approx), person the result of session.get *)
ApproxOf(P, id) == Exists(P, id, NoPerson) /\ P[id].approx

(* a spouse record: the family of the couple, unless the run made it already *)
SpouseStep(st, P, source_id, person_records, record) ==
    LET p == PrincipalOf(person_records, record)
        principal_id == person_records[p].person_id
        pair == SortedPair(principal_id, record.person_id)
        r == upsert_couple(st.families, P, source_id, pair[1], pair[2],
                           _family_line_key(source_id, record.page_index,
                                            record.line_index, pair[1], pair[2]),
                           ApproxOf(P, record.person_id) \/ ApproxOf(P, principal_id),
                           record.page_index)
    IN  IF p = 0 \/ pair \in DOMAIN st.family_cache THEN st
        ELSE [ st EXCEPT !.families = r.families,
                         !.family_cache = (pair :> r.id) @@ @,
                         !.families_seen = @ \cup {r.id} ]

(* a principal record: the generation tracker, then the child link to the  *)
(* family of the record tracked one generation up                          *)
PrincipalStep(st, P, source_id, person_records, record) ==
    LET gen == record.gen
        tracker == [ g \in { h \in DOMAIN st.gen_tracker : h < gen } \cup {gen}
                       |-> IF g = gen THEN record ELSE st.gen_tracker[g] ]
        parent_record == tracker[gen - 1]
        parent_id == parent_record.person_id
        spouse_id == SpouseOf(person_records, parent_record)
        pair == IF spouse_id # NoId THEN SortedPair(parent_id, spouse_id)
                ELSE <<parent_id, parent_id>>
        family_key == _family_line_key(source_id, record.page_index, record.line_index,
                                       pair[1], pair[2])
        r == IF spouse_id # NoId
             THEN upsert_couple(st.families, P, source_id, pair[1], pair[2], family_key,
                                ApproxOf(P, parent_id) \/ ApproxOf(P, spouse_id),
                                record.page_index)
             ELSE ensure_for_single_parent(st.families, P, source_id, parent_id, family_key,
                                           ApproxOf(P, parent_id), record.page_index)
        cached == pair \in DOMAIN st.family_cache
        family_id == IF cached THEN st.family_cache[pair] ELSE r.id
        l == link(st.children, family_id, record.person_id,
                  _child_link_key(source_id, record.page_index, record.line_index,
                                  record.person_id, family_id),
                  ApproxOf(P, record.person_id), record.page_index)
    IN  IF gen > 1 /\ (gen - 1) \in DOMAIN tracker
        THEN [ families |-> IF cached THEN st.families ELSE r.families,
               children |-> l.children,
               gen_tracker |-> tracker,
               family_cache |-> IF cached THEN st.family_cache
                                ELSE (pair :> r.id) @@ st.family_cache,
               families_seen |-> st.families_seen \cup {family_id},
               children_seen |-> st.children_seen \cup {l.id} ]
        ELSE [st EXCEPT !.gen_tracker = tracker]

(* the loop with a family made for the person of every record *)
RECURSIVE Pass2RecordsEager(_, _, _, _, _)
Pass2RecordsEager(st, P, source_id, person_records, i) ==
    IF i > Len(person_records) THEN st
    ELSE Pass2RecordsEager(
             [ (IF person_records[i].is_spouse
                THEN SpouseStep(st, P, source_id, person_records, person_records[i])
                ELSE PrincipalStep(st, P, source_id, person_records, person_records[i]))
               EXCEPT !.families =
                   ensure_for_single_parent(@, P, source_id, person_records[i].person_id,
                                            None, FALSE, NoIndex).families ],
             P, source_id, person_records, i + 1)

RECURSIVE Pass2Records(_, _, _, _, _)
Pass2Records(st, P, source_id, person_records, i) ==
    IF i > Len(person_records) THEN st
    ELSE Pass2Records(
             IF ~Exists(P, person_records[i].person_id, NoPerson) THEN st
             ELSE IF person_records[i].is_spouse
             THEN SpouseStep(st, P, source_id, person_records, person_records[i])
             ELSE PrincipalStep(st, P, source_id, person_records, person_records[i]),
             P, source_id, person_records, i + 1)

build_relationships_pass2(F, C, P, source_id, person_records) ==
    Pass2Records([ families |-> F, children |-> C,
                   gen_tracker |-> [g \in {} |-> NoRecord],
                   family_cache |-> NoCache,
                   families_seen |-> {}, children_seen |-> {} ],
                 P, source_id, person_records, 1)

----------------------------------------------------------------------------
(* parse_ocr_text: the three tables after the run and the statistics it    *)
(* returns                                                                 *)

(* the tables and the returned statistics, given the results of the passes *)
Statistics(pass1, pass2) ==
    [ persons |-> pass1.persons,
      families |-> pass2.families,
      children |-> pass2.children,
      people |-> Cardinality({ pass1.person_records[k].person_id :
                                 k \in 1..Len(pass1.person_records) }),
      families_seen |-> Cardinality(pass2.families_seen),
      children_seen |-> Cardinality(pass2.children_seen),
      flagged_lines |-> pass1.flagged_lines ]

(* pass 2 on the result of pass 1 *)
AfterPass1(F, C, source_id, pass1) ==
    Statistics(pass1, build_relationships_pass2(F, C, pass1.persons, source_id,
                                                pass1.person_records))

parse_ocr_text(P, F, C, source_id, doc, page_indexes) ==
    AfterPass1(F, C, source_id, extract_persons_pass1(P, source_id, doc, page_indexes))

----------------------------------------------------------------------------
(* Bounds and inputs of the store-level operations                         *)

MaxCalls == 3

MaxRows == 7

NumSources == 2

Sources == 1..NumSources

gNel == <<"N", "e", "l">>

gNelma == <<"N", "e", "l", "m", "a">>

gNelmar == <<"N", "e", "l", "m", "a", "r">>

gNeloae == <<"N", "e", "l", "o", "a", "e">>

sDoe == <<"D", "O", "E">>

sRoe == <<"R", "o", "e">>

y1899 == <<"1", "8", "9", "9">>

y1902 == <<"1", "9", "0", "2">>

y1904 == <<"1", "9", "0", "4">>

Sighting(given, surname, birth, line_key) ==
    [ given |-> given, surname |-> surname, name |-> None, gen |-> NoIndex,
      title |-> None, notes |-> None,
      birth |-> _build_vital(birth), death |-> NoVital,
      line_key |-> line_key, approx |-> FALSE ]

(* what callers pass to upsert_from_parse in the store-level runs: the     *)
(* first source sees every profile, the others two of them                 *)
Profiles ==
    { <<gNel, sDoe, None>>, <<gNelma, sDoe, None>>, <<gNelma, sDoe, y1902>>,
      <<gNelmar, sDoe, y1899>>, <<gNeloae, sDoe, y1904>>, <<gNel, sRoe, None>> }

ProfilesOf(source_id) ==
    IF source_id = 1 THEN Profiles
    ELSE { <<gNelma, sDoe, y1902>>, <<gNel, sRoe, None>> }

(* callers choose fingerprints freely: the same one may be used in two sources *)
KeysOf(source_id) == {None, _make_line_key(0, 0, 0, <<>>)}

Sightings ==
    [ source_id \in Sources |->
        { Sighting(p[1], p[2], p[3], k) : p \in ProfilesOf(source_id), k \in KeysOf(source_id) } ]

PersonsOf(source_id) == {i \in 1..Len(persons) : persons[i].source_id = source_id}

----------------------------------------------------------------------------
(* State: the three tables, the page texts of each source, the parse runs  *)
(* made so far, the number of direct resolver calls, the kind and path of  *)
(* the last call, and the arguments and result of the last resolver call   *)

NoCall == [op |-> "none", how |-> "none"]

Call(op, how) == [op |-> op, how |-> how]

NoSighting == Sighting(None, None, None, None)

InitStore ==
    /\ persons = <<>>
    /\ families = <<>>
    /\ children = <<>>
    /\ runs = <<>>
    /\ calls = 0
    /\ last = NoCall
    /\ resolved = [source_id |-> 0, sighting |-> NoSighting, id |-> NoId]
    /\ PARSE_JOBS = <<>>
    /\ threads = <<>>
    /\ locals = <<>>
    /\ OCR_JOBS = <<>>
    /\ OCR_JOB_QUEUE = <<>>
    /\ callers = {}
    /\ worker = [pc |-> "get", job_id |-> NoId]

Init ==
    /\ InitStore
    /\ pages = <<>>

Rows == Len(persons) + Len(families) + Len(children)

Outcome(r) == IF r.created THEN "new" ELSE "found"

(* resolvePerson: one call of Person.upsert_from_parse *)
ResolvePerson(source_id, s) ==
    LET r == upsert_from_parse(persons, source_id, s)
        how == IF r.created THEN "new"
               ELSE IF LookupByLineKey(persons, source_id, s.line_key) # NoId THEN "key"
               ELSE "fuzzy"
    IN  /\ persons' = r.persons
        /\ calls' = calls + 1
        /\ last' = Call("resolve", how)
        /\ resolved' = [source_id |-> source_id, sighting |-> s, id |-> r.id]
        /\ UNCHANGED <<families, children, pages, runs, jobvars, ocrvars>>

(* upsertCouple: one call of Family.upsert_couple *)
UpsertCouple(source_id, a, b, approx) ==
    LET r == upsert_couple(families, persons, source_id, a, b, None, approx, NoIndex)
    IN  /\ Rows < MaxRows \/ ~r.created
        /\ families' = r.families
        /\ last' = Call("couple", Outcome(r))
        /\ UNCHANGED <<persons, children, pages, runs, calls, resolved, jobvars, ocrvars>>

(* ensureSingleParent: one call of Family.ensure_for_single_parent *)
EnsureSingleParent(source_id, parent_id, approx) ==
    LET r == ensure_for_single_parent(families, persons, source_id, parent_id,
                                      None, approx, NoIndex)
    IN  /\ Rows < MaxRows \/ ~r.created
        /\ families' = r.families
        /\ last' = Call("single", Outcome(r))
        /\ UNCHANGED <<persons, children, pages, runs, calls, resolved, jobvars, ocrvars>>

(* linkChild: one call of Child.link *)
LinkChild(family_id, child_id, approx) ==
    LET r == link(children, family_id, child_id, None, approx, NoIndex)
    IN  /\ Rows < MaxRows \/ ~r.created
        /\ children' = r.children
        /\ last' = Call("link", Outcome(r))
        /\ UNCHANGED <<persons, families, pages, runs, calls, resolved, jobvars, ocrvars>>

(* the resolver alone, over every profile and fingerprint *)
NextResolve ==
    \E source_id \in Sources : \E s \in Sightings[source_id] :
        /\ calls < MaxCalls
        /\ ResolvePerson(source_id, s)

SpecResolve == Init /\ [][NextResolve]_vars

(* the family and child linker of one source, over persons resolved from   *)
(* keyed sightings                                                         *)
Newcomer == Sighting(gNel, None, None, _make_line_key(1, 0, Len(persons) + 1, <<>>))

Next ==
    \/ Rows < MaxRows /\ ResolvePerson(1, Newcomer)
    \/ \E a, b \in PersonsOf(1) : UpsertCouple(1, a, b, FALSE)
    \/ \E p \in PersonsOf(1) : EnsureSingleParent(1, p, FALSE)
    \/ \E f \in 1..Len(families) : \E c \in PersonsOf(1) : LinkChild(f, c, FALSE)

Spec == Init /\ [][Next]_vars

----------------------------------------------------------------------------
(* Parse runs of one source over its page texts                            *)

(* parseRun: one call of parse_ocr_text *)
ParseRun(source_id, page_indexes) ==
    /\ Len(runs) < MaxRuns
    /\ \E r \in {parse_ocr_text(persons, families, children, source_id, pages, page_indexes)} :
          /\ persons' = r.persons
          /\ families' = r.families
          /\ children' = r.children
          /\ runs' = Append(runs, [ source_id |-> source_id,
                                    page_indexes |-> page_indexes,
                                    people |-> r.people,
                                    families |-> r.families_seen,
                                    children |-> r.children_seen,
                                    flagged_lines |-> r.flagged_lines ])
          /\ last' = Call("parse", IF Len(r.persons) > Len(persons) THEN "new" ELSE "found")
    /\ UNCHANGED <<pages, calls, resolved, jobvars, ocrvars>>

NextParse == \E page_indexes \in PageSelections : ParseRun(1, page_indexes)

(* every two-page chart of catalog lines *)
InitParse ==
    /\ InitStore
    /\ pages \in Documents

SpecParse == InitParse /\ [][NextParse]_vars

(* every one-page chart of the lines of scenario A *)
InitScenario ==
    /\ InitStore
    /\ pages \in ScenarioDocuments

SpecScenario == InitScenario /\ [][NextParse]_vars

(* the same linker with approximate inputs, with persons whose sex has     *)
(* been recorded, and with runs over a chart of a couple and their child,  *)
(* first parsed into the empty source; calls that insert nothing stay      *)
(* possible when the tables are full                                       *)
MaxLinkerRows == 4

LinkerChart == <<JoinWith(<<lineNel, lineAnn, lineAl>>, <<NL>>)>>

InitLinker ==
    /\ InitStore
    /\ pages = LinkerChart

(* update_person: the sex of a person set through the people API *)
UpdatePerson(person_id, sex) ==
    /\ persons[person_id].sex # sex
    /\ persons' = [persons EXCEPT ![person_id].sex = sex]
    /\ last' = Call("update", "found")
    /\ UNCHANGED <<families, children, pages, runs, calls, resolved, jobvars, ocrvars>>

NextLinker ==
    \/ Rows < MaxLinkerRows /\ ResolvePerson(1, Newcomer)
    \/ \E p \in PersonsOf(1) : \E sex \in {"M", "F"} :
          Rows < MaxLinkerRows /\ UpdatePerson(p, sex)
    \/ \E a, b \in PersonsOf(1) : \E approx \in BOOLEAN :
          /\ UpsertCouple(1, a, b, approx)
          /\ Rows < MaxLinkerRows \/ Len(families') = Len(families)
    \/ \E p \in PersonsOf(1) : \E approx \in BOOLEAN :
          /\ EnsureSingleParent(1, p, approx)
          /\ Rows < MaxLinkerRows \/ Len(families') = Len(families)
    \/ \E f \in 1..Len(families) : \E c \in PersonsOf(1) : \E approx \in BOOLEAN :
          /\ LinkChild(f, c, approx)
          /\ Rows < MaxLinkerRows \/ Len(children') = Len(children)
    \/ (Rows = 0 \/ Len(runs) > 0) /\ ParseRun(1, NoPageIndexes)

SpecLinker == InitLinker /\ [][NextLinker]_vars

(* every one-page chart of the lines with anomalies, parsed as a whole or  *)
(* by page, on a store that a direct resolver call may have touched       *)
MaxChartCalls == 1

(* direct calls with the fingerprint of the first chart line under two     *)
(* surnames, and one without fingerprint                                   *)
ChartSightings ==
    { Sighting(gNel, sDoe, None, _make_line_key(1, 0, 0, lineNel)),
      Sighting(gNel, sRoe, None, _make_line_key(1, 0, 0, lineNel)),
      Sighting(gNel, sDoe, None, None) }

InitChart ==
    /\ InitStore
    /\ pages \in ChartDocuments

NextChart ==
    \/ \E page_indexes \in PageSelections : ParseRun(1, page_indexes)
    \/ \E s \in ChartSightings : calls < MaxChartCalls /\ ResolvePerson(1, s)

SpecChart == InitChart /\ [][NextChart]_vars

(* every one-page lineage chart, parsed as a whole or by page *)
InitLineage ==
    /\ InitStore
    /\ pages \in LineageDocuments

SpecLineage == InitLineage /\ [][NextParse]_vars

----------------------------------------------------------------------------
(* Child links made by Child.link and moved by reparent requests           *)

MaxReparentRows == 6

MaxReparentPersons == 3

(* reparent: one POST /families/reparent *)
ReparentChild(person_id, new_family_id, new_parent_person_id) ==
    \E r \in {reparent_child(persons, families, children, person_id, new_family_id,
                             new_parent_person_id)} :
        /\ families' = r.families
        /\ children' = r.children
        /\ last' = [ op |-> "reparent", how |-> r.status,
                     person_id |-> person_id, family_id |-> r.family_id ]
        /\ UNCHANGED <<persons, pages, runs, calls, resolved, jobvars, ocrvars>>

(* requests name persons and families of the store, or one id past them *)
NextReparent ==
    \/ Rows < MaxReparentRows /\ Len(persons) < MaxReparentPersons /\ ResolvePerson(1, Newcomer)
    \/ \E p \in PersonsOf(1) : Rows < MaxReparentRows /\ EnsureSingleParent(1, p, FALSE)
    \/ \E f \in 1..Len(families) : \E c \in PersonsOf(1) :
          Rows < MaxReparentRows /\ LinkChild(f, c, FALSE)
    \/ \E p \in 1..(Len(persons) + 1) : \E f \in 0..(Len(families) + 1) :
          \E parent \in 0..Len(persons) :
              /\ Rows < MaxReparentRows
              /\ ReparentChild(p, f, parent)

SpecReparent == Init /\ [][NextReparent]_vars

----------------------------------------------------------------------------
(* The OCR job queue of core/ocr_runner.py: callers of queue_ocr_job and   *)
(* the one ocr_worker thread.  A job id is the number of the call; an      *)
(* entry of OCR_JOBS holds its status and whether it has the output_pdf    *)
(* key.                                                                    *)

MaxOcrJobs == 3

(* the job ids issued so far (line 178 draws a fresh uuid) *)
IssuedOcrIds == DOMAIN OCR_JOBS \cup callers

(* queue_ocr_job, line 179: the job goes on the queue *)
QueuePut ==
    /\ \E job_id \in 1..MaxOcrJobs :
          /\ job_id \notin IssuedOcrIds
          /\ \A j \in 1..(job_id - 1) : j \in IssuedOcrIds
          /\ OCR_JOB_QUEUE' = Append(OCR_JOB_QUEUE, job_id)
          /\ callers' = callers \cup {job_id}
    /\ UNCHANGED <<persons, families, children, pages, runs, calls, last, resolved,
                   jobvars, OCR_JOBS, worker>>

(* queue_ocr_job, line 180: the entry of the job is stored as queued *)
QueueStore(job_id) ==
    /\ job_id \in callers
    /\ OCR_JOBS' = (job_id :> [status |-> "queued", output_pdf |-> FALSE]) @@ OCR_JOBS
    /\ callers' = callers \ {job_id}
    /\ UNCHANGED <<persons, families, children, pages, runs, calls, last, resolved,
                   jobvars, OCR_JOB_QUEUE, worker>>

(* ocr_worker, line 41: the next job leaves the queue *)
WorkerGet ==
    /\ worker.pc = "get"
    /\ OCR_JOB_QUEUE # <<>>
    /\ worker' = [pc |-> "start", job_id |-> Head(OCR_JOB_QUEUE)]
    /\ OCR_JOB_QUEUE' = Tail(OCR_JOB_QUEUE)
    /\ UNCHANGED <<persons, families, children, pages, runs, calls, last, resolved,
                   jobvars, OCR_JOBS, callers>>

(* ocr_worker, lines 44-57: the process starts and the entry is replaced *)
WorkerStart ==
    /\ worker.pc = "start"
    /\ OCR_JOBS' = (worker.job_id :> [status |-> "running", output_pdf |-> TRUE]) @@ OCR_JOBS
    /\ worker' = [worker EXCEPT !.pc = "wait"]
    /\ UNCHANGED <<persons, families, children, pages, runs, calls, last, resolved,
                   jobvars, OCR_JOB_QUEUE, callers>>

(* ocr_worker, lines 59-75: the process ends and the status of the entry   *)
(* now stored is set                                                       *)
WorkerFinish(returncode) ==
    /\ worker.pc = "wait"
    /\ OCR_JOBS' = [OCR_JOBS EXCEPT ![worker.job_id].status =
                       IF returncode = 0 THEN "completed" ELSE "failed"]
    /\ worker' = [pc |-> "get", job_id |-> NoId]
    /\ UNCHANGED <<persons, families, children, pages, runs, calls, last, resolved,
                   jobvars, OCR_JOB_QUEUE, callers>>

NextOcr ==
    \/ QueuePut
    \/ \E job_id \in callers : QueueStore(job_id)
    \/ WorkerGet
    \/ WorkerStart
    \/ \E returncode \in {0, 1} : WorkerFinish(returncode)

SpecOcr == Init /\ [][NextOcr]_vars

----------------------------------------------------------------------------
(* Family/Child linker properties (Spec)                                   *)

TwoParent(f) == f.husband_id # NoId /\ f.wife_id # NoId

Parents(f) == {f.husband_id, f.wife_id} \ {NoId}

FamilyIds == 1..Len(families)

ChildIds == 1..Len(children)

(* C2: each source holds at most one two-parent family per unordered pair  *)
(* of distinct persons, its parents are stored in sorted order, and        *)
(* upsertCouple(src, A, B) followed by upsertCouple(src, B, A) returns the *)
(* same family without inserting one.                                      *)
C2_CanonicalPair ==
    /\ \A i, j \in FamilyIds :
          ( /\ TwoParent(families[i]) /\ TwoParent(families[j])
            /\ families[i].source_id = families[j].source_id
            /\ Parents(families[i]) = Parents(families[j]) ) => i = j
    /\ \A i \in FamilyIds :
          TwoParent(families[i]) => families[i].husband_id < families[i].wife_id
    /\ \A a, b \in PersonsOf(1) :
          a # b =>
            LET r1 == upsert_couple(families, persons, 1, a, b, None, FALSE, NoIndex)
                r2 == upsert_couple(r1.families, persons, 1, b, a, None, FALSE, NoIndex)
            IN  r2.id = r1.id /\ ~r2.created /\ Parents(r2.families[r2.id]) = {a, b}

C2_Witness ==
    /\ last = Call("couple", "found")
    /\ Cardinality({i \in FamilyIds : TwoParent(families[i])}) >= 2

ChildrenOf(f) == {k \in ChildIds : children[k].family_id = f}

(* C3: in every family the ordinals of its n child links are exactly       *)
(* 0..n-1, increasing in the order the links were made, and linking an     *)
(* already linked (family, child) again returns that link, inserts nothing *)
(* and changes no ordinal.                                                 *)
C3_Ordinals ==
    /\ \A f \in FamilyIds :
          /\ {children[k].order_index : k \in ChildrenOf(f)} = 0..(Cardinality(ChildrenOf(f)) - 1)
          /\ \A k, m \in ChildrenOf(f) :
                k < m => children[k].order_index < children[m].order_index
    /\ \A k \in ChildIds :
          LET r == link(children, children[k].family_id, children[k].person_id,
                        None, FALSE, NoIndex)
          IN  /\ r.id = k
              /\ ~r.created
              /\ Len(r.children) = Len(children)
              /\ \A m \in ChildIds : r.children[m].order_index = children[m].order_index

C3_Witness ==
    /\ last = Call("link", "found")
    /\ \E f \in FamilyIds : Cardinality(ChildrenOf(f)) = 3

SingleParentOf(f) == CHOOSE p \in Parents(f) : TRUE

(* C9: when a single-parent family of P exists, upsertCouple(src, P, S)    *)
(* with S # P returns that family, now holding P and S, and inserts no     *)
(* family.                                                                 *)
C9_UpgradeInPlace ==
    \A f \in FamilyIds :
        (families[f].is_single_parent /\ Cardinality(Parents(families[f])) = 1) =>
            \A s \in PersonsOf(families[f].source_id) \ Parents(families[f]) :
                LET p == SingleParentOf(families[f])
                    r == upsert_couple(families, persons, families[f].source_id, p, s,
                                       None, FALSE, NoIndex)
                IN  /\ r.id = f
                    /\ ~r.created
                    /\ Parents(r.families[f]) = {p, s}

----------------------------------------------------------------------------
(* Entity-resolver properties (SpecResolve)                                *)

PersonIds == 1..Len(persons)

ResolveStep == calls' = calls + 1

(* C4: a call whose source and fingerprint are those of an existing record *)
(* returns that record and inserts none, whatever names and vitals it      *)
(* carries.                                                                *)
C4_ExactIdempotence ==
    [][ ResolveStep =>
          \A i \in PersonIds :
              ( /\ resolved'.sighting.line_key # None
                /\ persons[i].source_id = resolved'.source_id
                /\ persons[i].line_key = resolved'.sighting.line_key )
              => (resolved'.id = i /\ Len(persons') = Len(persons)) ]_vars

C4_Witness ==
    /\ last = Call("resolve", "key")
    /\ resolved.id = 1
    /\ Len(persons) = 2
    /\ persons[1].source_id = persons[2].source_id
    /\ _normalize_name(resolved.sighting.surname) = persons[2].normalized_surname
    /\ _normalize_name(resolved.sighting.surname) # _normalize_name(persons[1].surname)

SameSurname(p, s) ==
    /\ p.normalized_surname # None
    /\ p.normalized_surname = _normalize_name(s.surname)

KeyDiffers(p, s) == s.line_key = None \/ s.line_key # p.line_key

YearGap(p, s) ==
    IF p.birth_year = NoYear \/ SightingYear(s) = NoYear THEN NoYear
    ELSE Abs(p.birth_year - SightingYear(s))

(* C5: after a first sighting, a second one with another fingerprint, the  *)
(* same normalized surname, a normalized given name at edit distance       *)
(* exactly 2 and a birth year differing by exactly 2 resolves to the first *)
(* record; one with the same surname, a given name at edit distance 3 and  *)
(* another phonetic code is stored as a second record.                     *)
C5_FuzzyBoundary ==
    calls = 1 =>
        \A s \in Sightings[persons[1].source_id] :
            LET p == persons[1]
                r == upsert_from_parse(persons, p.source_id, s)
                d == _levenshtein(_normalize_name(s.given), p.normalized_given)
            IN  /\ (KeyDiffers(p, s) /\ SameSurname(p, s) /\ d = 2 /\ YearGap(p, s) = 2)
                      => (r.id = 1 /\ ~r.created /\ Len(r.persons) = 1)
                /\ (KeyDiffers(p, s) /\ SameSurname(p, s) /\ d = 3
                                     /\ metaphone(s.given) # metaphone(p.given))
                      => (r.id = 2 /\ r.created /\ Len(r.persons) = 2)

C5_Witness ==
    /\ calls = 2
    /\ Len(persons) = 1
    /\ last = Call("resolve", "fuzzy")
    /\ _levenshtein(_normalize_name(persons[1].given), persons[1].normalized_given) = 2
    /\ Abs(_extract_year(persons[1].birth) - persons[1].birth_year) = 2

(* the fuzzy policy in the words of the specification *)
PolicyAccepts(p, s) ==
    /\ \/ _levenshtein(_normalize_name(s.given), p.normalized_given) <= 2
       \/ (s.given # None /\ p.given # None /\ metaphone(s.given) = metaphone(p.given))
    /\ ~(YearGap(p, s) # NoYear /\ YearGap(p, s) > 2)

Eligible(source_id, s) ==
    { i \in PersonIds : /\ persons[i].source_id = source_id
                        /\ SameSurname(persons[i], s)
                        /\ PolicyAccepts(persons[i], s) }

HasKey(source_id, line_key) ==
    /\ line_key # None
    /\ \E i \in PersonIds : persons[i].source_id = source_id /\ persons[i].line_key = line_key

(* C6: a call whose fingerprint no record of the source has returns the    *)
(* earliest-created record of the same source and normalized surname that  *)
(* satisfies the fuzzy policy, and inserts exactly one record when there   *)
(* is none; a returned record is never of another source or surname.       *)
C6_FuzzyResolution ==
    [][ (ResolveStep /\ ~HasKey(resolved'.source_id, resolved'.sighting.line_key)) =>
          LET ok == Eligible(resolved'.source_id, resolved'.sighting)
          IN  IF ok # {}
              THEN /\ resolved'.id \in ok
                   /\ \A j \in ok : resolved'.id <= j
                   /\ Len(persons') = Len(persons)
              ELSE /\ resolved'.id = Len(persons) + 1
                   /\ Len(persons') = Len(persons) + 1
                   /\ SubSeq(persons', 1, Len(persons)) = persons ]_vars

C6_Witness ==
    /\ last = Call("resolve", "fuzzy")
    /\ resolved.id = 2
    /\ Len(persons) = 2
    /\ persons[1].source_id = persons[2].source_id
    /\ persons[1].normalized_surname = persons[2].normalized_surname

----------------------------------------------------------------------------
(* Parse run properties (SpecParse, SpecScenario)                          *)

WholeRun(run) == run.page_indexes = NoPageIndexes

Fingerprints(P, source_id) ==
    { <<i, P[i].line_key>> : i \in { j \in 1..Len(P) : P[j].source_id = source_id } }

(* C1: a whole-chart run that follows a whole-chart run of the same source *)
(* on the same page text leaves the ids and fingerprints of its Person     *)
(* records and the numbers of Person, Family and Child-link records as the *)
(* first run left them.                                                    *)
C1_ParseIdempotence ==
    [][ ( /\ Len(runs) >= 1
          /\ Len(runs') = Len(runs) + 1
          /\ WholeRun(runs[Len(runs)])
          /\ WholeRun(runs'[Len(runs')])
          /\ runs'[Len(runs')].source_id = runs[Len(runs)].source_id )
        => /\ Fingerprints(persons', runs[Len(runs)].source_id)
                = Fingerprints(persons, runs[Len(runs)].source_id)
           /\ Len(persons') = Len(persons)
           /\ Len(families') = Len(families)
           /\ Len(children') = Len(children) ]_vars

ScenarioA == <<JoinWith(<<lineAndrew, lineSarah, lineSimon>>, <<NL>>)>>

ScenarioARun == pages = ScenarioA /\ Len(runs) = 1 /\ WholeRun(runs[1])

(* C7: one run over the three lines of scenario A on an empty source       *)
(* leaves exactly 3 persons (Andrew, Sarah, Simon), exactly 1 family, whose *)
(* two parents are Andrew and Sarah, exactly 1 child link, of Simon in that *)
(* family, and Sarah flagged approximate.                                   *)
C7_ScenarioA ==
    ScenarioARun =>
        /\ Len(persons) = 3
        /\ persons[1].given = <<"A", "n", "d", "r", "e", "w">>
        /\ persons[2].given = <<"S", "a", "r", "a", "h">>
        /\ persons[3].given = <<"S", "i", "m", "o", "n">>
        /\ Len(families) = 1
        /\ {families[1].husband_id, families[1].wife_id} = {1, 2}
        /\ ~families[1].is_single_parent
        /\ Len(children) = 1
        /\ children[1].family_id = 1
        /\ children[1].person_id = 3
        /\ persons[2].approx

C7_Witness ==
    /\ ScenarioARun
    /\ last = Call("parse", "new")
    /\ runs[1].people = 3

SplitRuns ==
    /\ Len(runs) = 2
    /\ runs[1].page_indexes = <<0>>
    /\ runs[2].page_indexes = <<1>>

WholeParse == parse_ocr_text(<<>>, <<>>, <<>>, 1, pages, NoPageIndexes)

Couples(F) == { <<F[i].husband_id, F[i].wife_id, F[i].is_single_parent>> : i \in 1..Len(F) }

Links(F, C) == { <<F[C[i].family_id].husband_id, F[C[i].family_id].wife_id, C[i].person_id>> :
                   i \in 1..Len(C) }

(* C8: page 0 parsed alone and then page 1 parsed alone leave the Person,  *)
(* Family and Child-link records that one run over both pages leaves.      *)
C8_SplitEqualsWhole ==
    SplitRuns =>
        /\ Fingerprints(persons, 1) = Fingerprints(WholeParse.persons, 1)
        /\ Couples(families) = Couples(WholeParse.families)
        /\ Links(families, children) = Links(WholeParse.families, WholeParse.children)

(* C10: no person has child links to two different families.               *)
C10_OneParentalFamily ==
    \A i, j \in 1..Len(children) :
        children[i].person_id = children[j].person_id
            => children[i].family_id = children[j].family_id

----------------------------------------------------------------------------
(* Anomalous lines (SpecChart)                                             *)

ParseStep == Len(runs') = Len(runs) + 1

(* the lines the run made by this step went through *)
StepLines == iter_lines(pages, runs'[Len(runs')].page_indexes)

StepFlagged == runs'[Len(runs')].flagged_lines

IsFlagged(flagged_lines, raw_line) ==
    \E k \in 1..Len(flagged_lines) : flagged_lines[k] = raw_line

KindOf(line) == Entry(line[3]).kind

(* the spouse lines with no person line before them in the run *)
OrphanSpouses(lines) ==
    { i \in 1..Len(lines) :
        /\ KindOf(lines[i]) = "spouse"
        /\ \A j \in 1..(i - 1) : KindOf(lines[j]) # "person" }

(* a Person inserted by this step from the line *)
InsertsPersonFrom(line) ==
    \E id \in (Len(persons) + 1)..Len(persons') :
        persons'[id].line_key = _make_line_key(1, line[1], line[2], line[3])

(* a Family inserted by this step with the fingerprint of the line *)
InsertsFamilyFrom(line) ==
    \E f \in (Len(families) + 1)..Len(families') :
        /\ families'[f].line_key[3] = line[1]
        /\ families'[f].line_key[4] = line[2]

(* C11: a spouse line that comes before every person line of the run      *)
(* inserts no Person and no Family, and the run lists the raw line among   *)
(* its flagged lines.                                                      *)
C11_OrphanSpouseFlagged ==
    [][ ParseStep =>
          \A i \in OrphanSpouses(StepLines) :
              /\ ~InsertsPersonFrom(StepLines[i])
              /\ ~InsertsFamilyFrom(StepLines[i])
              /\ IsFlagged(StepFlagged, StepLines[i][3]) ]_vars

(* the part of C11 that the code keeps: nothing is inserted *)
C11_OrphanSpouseInsertsNothing ==
    [][ ParseStep =>
          \A i \in OrphanSpouses(StepLines) :
              /\ ~InsertsPersonFrom(StepLines[i])
              /\ ~InsertsFamilyFrom(StepLines[i]) ]_vars

(* the page texts the run made by this step went through *)
StepPages ==
    LET page_indexes == runs'[Len(runs')].page_indexes
    IN  IF page_indexes = NoPageIndexes THEN { pages[k] : k \in 1..Len(pages) }
        ELSE { pages[page_indexes[k] + 1] :
                 k \in { j \in 1..Len(page_indexes) : page_indexes[j] < Len(pages) } }

(* the text lines of a page that neither person pattern and not the spouse *)
(* pattern matches                                                         *)
NoiseLines(page) ==
    { l \in { SplitOn(page, NL)[k] : k \in 1..Len(SplitOn(page, NL)) } :
        l # <<>> /\ ~IsRecord(l) }

(* the line is flagged by itself or as the continuation of a flagged record *)
Listed(flagged_lines, l) ==
    \E k \in 1..Len(flagged_lines) :
        \E i \in 1..Len(flagged_lines[k]) :
            SubSeq(flagged_lines[k], i, i + Len(l) - 1) = l

(* C12: every line of the run that matches neither the person patterns    *)
(* nor the spouse pattern is listed in the flagged lines of the run, be    *)
(* it appended to the record before it or left without a record.           *)
C12_NoiseFlagged ==
    [][ ParseStep =>
          \A page \in StepPages : \A l \in NoiseLines(page) : Listed(StepFlagged, l) ]_vars

(* the lines of the run whose generation token gives no number *)
UnparseableLines(lines) == { i \in 1..Len(lines) : KindOf(lines[i]) = "flagged" }

(* the run of this step with those lines taken out of its input, the other *)
(* lines keeping their numbers                                             *)
RunWithout ==
    AfterPass1(families, children, 1,
               Pass1Lines([ persons |-> persons, person_records |-> <<>>,
                            flagged_lines |-> <<>>, last_principal_person |-> NoRecord ],
                          1, SelectSeq(StepLines, LAMBDA l : KindOf(l) # "flagged"), 1))

(* C13: a person-marker line whose generation token gives no number is     *)
(* listed in the flagged lines, and the run leaves the Person, Family and  *)
(* Child-link tables exactly as it leaves them when that line is taken     *)
(* out of its input.                                                       *)
C13_UnparseableSkipped ==
    [][ (ParseStep /\ UnparseableLines(StepLines) # {}) =>
          LET without == RunWithout
          IN  /\ \A i \in UnparseableLines(StepLines) :
                    IsFlagged(StepFlagged, StepLines[i][3])
              /\ persons' = without.persons
              /\ families' = without.families
              /\ children' = without.children ]_vars

(* a whole run on an empty store over a chart where a spouse line and a    *)
(* child line follow the unparseable line                                  *)
C13_Witness ==
    /\ pages \in { <<JoinWith(<<lineNel, lineMixed, tail>>, <<NL>>)>> : tail \in {lineAnn, lineAl} }
    /\ Len(runs) = 1
    /\ WholeRun(runs[1])
    /\ calls = 0
    /\ Len(runs[1].flagged_lines) = 1
    /\ Len(persons) = 2
    /\ Len(families) = 1

----------------------------------------------------------------------------
(* Approximation and single-parent families (SpecLinker)                   *)

(* C14: a family whose approximate flag is set keeps it through every      *)
(* later upsertCouple, ensureSingleParent, linkChild and parse run, and    *)
(* is never removed.                                                       *)
C14_ApproxMonotone ==
    [][ \A f \in FamilyIds :
          families[f].approx => (f <= Len(families') /\ families'[f].approx) ]_vars

(* the couple of the chart, neither of them approximate, was flagged by an *)
(* upsertCouple call between two runs: the second run finds the family     *)
(* with an input that is not approximate                                   *)
C14_Witness ==
    /\ Len(runs) = 2
    /\ last = Call("parse", "found")
    /\ Len(families) = 1
    /\ families[1].approx
    /\ ~persons[families[1].husband_id].approx
    /\ ~persons[families[1].wife_id].approx

(* the single-parent families of person p in table F *)
SinglesOf(F, source_id, p) ==
    { f \in 1..Len(F) : /\ F[f].source_id = source_id
                         /\ F[f].is_single_parent
                         /\ (F[f].husband_id = p \/ F[f].wife_id = p) }

(* C18: ensureSingleParent(src, P) returns the single-parent family of P   *)
(* when there is one and inserts nothing; otherwise it inserts one with P  *)
(* in the wife slot when the recorded sex of P is F and in the husband     *)
(* slot otherwise; upsertCouple(src, P, P) does the same, P never has two  *)
(* single-parent families, and a further call returns the same family.     *)
C18_SingleParent ==
    \A p \in PersonsOf(1) :
        LET singles == SinglesOf(families, 1, p)
            r == ensure_for_single_parent(families, persons, 1, p, None, FALSE, NoIndex)
            c == upsert_couple(families, persons, 1, p, p, None, FALSE, NoIndex)
            again == ensure_for_single_parent(r.families, persons, 1, p, None, FALSE, NoIndex)
        IN  /\ Cardinality(singles) <= 1
            /\ singles # {} =>
                  (r.id \in singles /\ ~r.created /\ Len(r.families) = Len(families))
            /\ singles = {} =>
                  /\ r.created
                  /\ r.id = Len(families) + 1
                  /\ r.families[r.id].is_single_parent
                  /\ r.families[r.id].wife_id = (IF persons[p].sex = "F" THEN p ELSE NoId)
                  /\ r.families[r.id].husband_id = (IF persons[p].sex = "F" THEN NoId ELSE p)
            /\ c = r
            /\ SinglesOf(r.families, 1, p) = {r.id}
            /\ again.id = r.id /\ ~again.created

(* a mother in the wife slot and a parent of unrecorded sex in the husband *)
(* slot, each with a single-parent family, after a call that found one     *)
C18_Witness ==
    /\ last = Call("single", "found")
    /\ \E f, g \in FamilyIds :
          /\ families[f].is_single_parent /\ families[g].is_single_parent
          /\ families[f].wife_id # NoId /\ families[f].husband_id = NoId
          /\ persons[families[f].wife_id].sex = "F"
          /\ families[g].husband_id # NoId /\ families[g].wife_id = NoId

----------------------------------------------------------------------------
(* Approximation after parse runs (SpecChart)                              *)

ApproxMember(f) ==
    \/ \E parent \in Parents(families[f]) : persons[parent].approx
    \/ \E c \in ChildrenOf(f) : persons[children[c].person_id].approx

(* C15: after a parse run every family with an approximate parent or an    *)
(* approximate linked child is flagged approximate, and so is every child  *)
(* link of an approximate child.                                           *)
C15_ApproxPropagates ==
    last.op = "parse" =>
        /\ \A f \in FamilyIds : ApproxMember(f) => families[f].approx
        /\ \A c \in ChildIds : persons[children[c].person_id].approx => children[c].approx

(* the part of C15 that the code keeps: the flag of an approximate parent  *)
(* reaches the family, the flag of an approximate child its link           *)
C15_ParentsAndLinks ==
    last.op = "parse" =>
        /\ \A f \in FamilyIds :
              (\E parent \in Parents(families[f]) : persons[parent].approx)
                  => families[f].approx
        /\ \A c \in ChildIds : persons[children[c].person_id].approx => children[c].approx

----------------------------------------------------------------------------
(* Person records under merges (SpecResolve)                               *)

TextFields ==
    { "given", "surname", "name", "title", "notes", "birth", "death", "line_key",
      "normalized_given", "normalized_surname" }

(* every populated field of the record old is populated in the record new *)
Keeps(old, new) ==
    /\ \A f \in TextFields : old[f] # None => new[f] # None
    /\ old.birth_year # NoYear => new.birth_year # NoYear
    /\ old.approx => new.approx

(* what pass 1 hands to the resolver for a person line of the charts *)
SightingOf(raw_line) ==
    LET e == Entry(raw_line)
    IN  [ given |-> e.data.given, surname |-> e.data.surname, name |-> e.data.display,
          gen |-> e.gen, title |-> e.data.title, notes |-> e.data.notes,
          birth |-> e.data.birth, death |-> e.data.death,
          line_key |-> _make_line_key(1, 0, 0, raw_line), approx |-> e.data.approx ]

(* C16: a resolvePerson call removes no Person record and empties no       *)
(* populated field of a record: names, display name, title, notes, birth   *)
(* and death text, fingerprint, normalized names, birth year, approximate  *)
(* flag; the same holds for the merge of an empty sighting into the        *)
(* records of the chart lines with a title, notes and vitals.              *)
C16_MergeKeepsFields ==
    [][ /\ \A i \in PersonIds : i <= Len(persons') /\ Keeps(persons[i], persons'[i])
        /\ \A a \in {SightingOf(lineAndrew), SightingOf(lineAl)} :
              \A b \in {NoSighting, SightingOf(lineNel)} :
                  Keeps(NewPerson(1, a), MergedPerson(NewPerson(1, a), b)) ]_vars

(* a sighting without birth text was merged into a record that has one *)
C16_Witness ==
    /\ last.op = "resolve"
    /\ last.how \in {"key", "fuzzy"}
    /\ resolved.sighting.birth.raw = None
    /\ persons[resolved.id].birth # None
    /\ persons[resolved.id].birth_year # NoYear

----------------------------------------------------------------------------
(* Lazily created families (SpecChart)                                     *)

LoneLine == pages = <<lineNel>> /\ Len(persons) = 0 /\ StepLines # <<>>

(* C19: every Family a run inserts has two parents, from a spouse line, or *)
(* a child linked to it; a run over the lone generation-1 line on an empty *)
(* source leaves 1 person, 0 families and 0 child links and reports these  *)
(* numbers.                                                                *)
C19_LazyFamilies ==
    [][ ParseStep =>
          /\ \A f \in (Len(families) + 1)..Len(families') :
                \/ TwoParent(families'[f])
                \/ \E c \in 1..Len(children') : children'[c].family_id = f
          /\ LoneLine =>
                /\ Len(persons') = 1 /\ Len(families') = 0 /\ Len(children') = 0
                /\ runs'[Len(runs')].people = 1
                /\ runs'[Len(runs')].families = 0
                /\ runs'[Len(runs')].children = 0 ]_vars

C19_Witness ==
    /\ pages = <<lineNel>>
    /\ calls = 0
    /\ Len(runs) = 1
    /\ runs[1].people = 1
    /\ persons[1].gen = 1
    /\ persons[1].surname = sDoe

----------------------------------------------------------------------------
(* Store constraints under resolver calls and parse runs (SpecChart)       *)

(* C17: no two Person records of one source carry the same non-empty       *)
(* fingerprint.                                                            *)
C17_UniqueFingerprint ==
    \A i, j \in PersonIds :
        ( /\ persons[i].source_id = persons[j].source_id
          /\ persons[i].line_key # None
          /\ persons[i].line_key = persons[j].line_key ) => i = j

(* a direct call and a parse run have both used the fingerprint of the     *)
(* first line, under different surnames, and the run stored other lines    *)
C17_Witness ==
    /\ calls = 1
    /\ Len(runs) >= 1
    /\ resolved.sighting.surname = sRoe
    /\ resolved.sighting.line_key = _make_line_key(1, 0, 0, lineNel)
    /\ \E i \in PersonIds : persons[i].line_key = resolved.sighting.line_key
    /\ Len(SplitOn(pages[1], NL)) >= 2
    /\ SplitOn(pages[1], NL)[1] = lineNel
    /\ Len(persons) >= 2

(* uq_person_source_line, uq_family_couple and uq_child_membership: a      *)
(* unique constraint does not compare rows in which a column is NULL       *)
Constraints(P, F, C) ==
    /\ \A i, j \in 1..Len(P) :
          ( /\ P[i].line_key # None
            /\ P[i].source_id = P[j].source_id
            /\ P[i].line_key = P[j].line_key ) => i = j
    /\ \A i, j \in 1..Len(F) :
          ( /\ F[i].husband_id # NoId /\ F[i].wife_id # NoId
            /\ F[i].source_id = F[j].source_id
            /\ F[i].husband_id = F[j].husband_id
            /\ F[i].wife_id = F[j].wife_id ) => i = j
    /\ \A i, j \in 1..Len(C) :
          (C[i].family_id = C[j].family_id /\ C[i].person_id = C[j].person_id) => i = j

(* the statistics of a run are numbers within the size of its tables *)
Returned(r) ==
    /\ r.people \in 0..Len(r.persons)
    /\ r.families_seen \in 0..Len(r.families)
    /\ r.children_seen \in 0..Len(r.children)
    /\ Len(r.flagged_lines) >= 0

(* C20: on every store that resolver calls and runs have left, a run over  *)
(* any selection of the chart, with its person lines of any generation in  *)
(* any order, its spouse lines, lines without marker and unparseable       *)
(* generation tokens, returns its statistics, and the rows it inserts keep *)
(* the three uniqueness constraints of the tables.                         *)
C20_RunsComplete ==
    /\ Constraints(persons, families, children)
    /\ \A page_indexes \in PageSelections :
          LET r == parse_ocr_text(persons, families, children, 1, pages, page_indexes)
          IN  Returned(r) /\ Constraints(r.persons, r.families, r.children)

(* two runs over a chart that starts at generation 2 and has an            *)
(* unparseable line before a spouse line                                   *)
C20_Witness ==
    /\ pages = <<JoinWith(<<lineAl, lineMixed, lineAnn>>, <<NL>>)>>
    /\ Len(runs) = 2
    /\ Len(runs[2].flagged_lines) = 1
    /\ runs[2].people = 2
    /\ Len(families) = 1


----------------------------------------------------------------------------
(* Matching keys of the stored records (SpecResolve)                       *)

(* the matching keys of the record are those of its stored fields *)
KeysAgree(p) ==
    /\ p.normalized_given = _normalize_name(p.given)
    /\ p.normalized_surname = _normalize_name(p.surname)
    /\ p.birth_year = (IF p.birth = None THEN NoYear ELSE _extract_year(p.birth))

(* C25: in every state reached through resolvePerson calls, each Person's  *)
(* normalized_given and normalized_surname are the normalizations of its   *)
(* stored given name and surname, and its birth_year is the year in its    *)
(* stored birth text.                                                      *)
C25_KeysAgree == \A i \in PersonIds : KeysAgree(persons[i])

(* the part that holds: a record has agreeing keys when it is inserted *)
C25_InsertedKeysAgree ==
    [][ \A i \in (Len(persons) + 1)..Len(persons') : KeysAgree(persons'[i]) ]_vars


----------------------------------------------------------------------------
(* The relationship builder against the generation stack (SpecLineage)     *)

(* the records pass 1 hands to pass 2 in this step *)
StepRecords ==
    extract_persons_pass1(persons, 1, pages, runs'[Len(runs')].page_indexes).person_records

PrincipalRecords(records) == { i \in 1..Len(records) : ~records[i].is_spouse }

(* the parent context of the stack for the person line of record i: the    *)
(* nearest preceding person line of a lower generation when its generation *)
(* is one less, 0 when there is none                                       *)
StackParent(records, i) ==
    LET lower == { k \in PrincipalRecords(records) :
                     k < i /\ records[k].gen < records[i].gen }
    IN  IF lower = {} THEN 0
        ELSE IF records[SetMax(lower)].gen = records[i].gen - 1 THEN SetMax(lower)
        ELSE 0

(* the child rows F, C hold for the person child under the parent *)
LinksUnder(F, C, child, parent) ==
    { c \in 1..Len(C) : C[c].person_id = child /\ parent \in Parents(F[C[c].family_id]) }

(* the tables after the step link the records as the stack does *)
StackHolds(records) ==
    /\ \A i \in PrincipalRecords(records) :
          StackParent(records, i) # 0 =>
              LinksUnder(families', children', records[i].person_id,
                         records[StackParent(records, i)].person_id) # {}
    /\ \A c \in (Len(children) + 1)..Len(children') :
          \E i \in PrincipalRecords(records) :
              /\ StackParent(records, i) # 0
              /\ c \in LinksUnder(families', children', records[i].person_id,
                                  records[StackParent(records, i)].person_id)
    /\ \A c \in (Len(children) + 1)..Len(children') :
          \/ TwoParent(families'[children'[c].family_id])
          \/ families'[children'[c].family_id].is_single_parent

(* C22: in every parse run a person line at generation g is linked as a    *)
(* child exactly when the nearest preceding person line with a generation  *)
(* lower than g has generation g-1; it is then linked to a family of that  *)
(* person, made as a single-parent family on first use; no other child     *)
(* link is made.                                                           *)
C22_StackLinks == [][ ParseStep => StackHolds(StepRecords) ]_vars

(* the part that holds: the same over the runs whose person lines all     *)
(* have a generation of at least 1                                         *)
C22_StackLinksFromRoot ==
    [][ (ParseStep /\ \A i \in 1..Len(StepRecords) : StepRecords[i].gen >= 1)
            => StackHolds(StepRecords) ]_vars


----------------------------------------------------------------------------
(* Spouse lines (SpecLineage)                                              *)

SpouseRecords(records) == { i \in 1..Len(records) : records[i].is_spouse }

(* the most recent person line before record i *)
LastPrincipal(records, i) == SetMax({ k \in PrincipalRecords(records) : k < i })

(* the persons of a spouse line and of the person line it follows *)
CoupleOf(records, i) ==
    {records[i].person_id, records[LastPrincipal(records, i)].person_id}

(* the tables after the step pair each spouse with its person line only *)
SpousesAttach(records) ==
    /\ \A i \in SpouseRecords(records) :
          /\ PrincipalOf(records, records[i]) = LastPrincipal(records, i)
          /\ \E f \in 1..Len(families') :
                /\ TwoParent(families'[f])
                /\ Parents(families'[f]) = CoupleOf(records, i)
    /\ \A f \in (Len(families) + 1)..Len(families') :
          TwoParent(families'[f]) =>
              \E i \in SpouseRecords(records) : Parents(families'[f]) = CoupleOf(records, i)

(* C23: in every parse run each spouse line that follows a person line     *)
(* attaches to the person of the most recent preceding person line only:   *)
(* the backward scan of pass 2 selects that line, after the run a          *)
(* two-parent family holds exactly that person and the spouse, and every   *)
(* two-parent family the run inserts is of a spouse line and its person.   *)
C23_SpousesAttach == [][ ParseStep => SpousesAttach(StepRecords) ]_vars

(* the part that holds: the same over the runs where no spouse line       *)
(* resolves to the record of the person line it follows                    *)
C23_DistinctSpousesAttach ==
    [][ ( /\ ParseStep
          /\ \A i \in SpouseRecords(StepRecords) :
                Cardinality(CoupleOf(StepRecords, i)) = 2 )
            => SpousesAttach(StepRecords) ]_vars


----------------------------------------------------------------------------
(* Children and their own families (SpecLineage)                           *)

(* C24: after any parse run no person is linked as a child of a family in  *)
(* which that person is a parent, also when a child line resolves by fuzzy *)
(* match to the record of its own parent line.                             *)
C24_NoSelfParent ==
    \A c \in ChildIds : children[c].person_id \notin Parents(families[children[c].family_id])


----------------------------------------------------------------------------
(* Child ordinals under reparent requests (SpecReparent)                   *)

(* the child rows of family f *)
LinksOf(f) == { c \in ChildIds : children[c].family_id = f }

OrdinalsDistinct ==
    \A f \in FamilyIds : \A c, d \in LinksOf(f) :
        c # d => children[c].order_index # children[d].order_index

(* a person just reparented has one child row, in the target family *)
ReparentedOnce ==
    (last.op = "reparent" /\ last.how = "ok") =>
        \E c \in LinksOf(last.family_id) :
            { d \in ChildIds : children[d].person_id = last.person_id } = {c}

C27_DistinctAndOnce == OrdinalsDistinct /\ ReparentedOnce


----------------------------------------------------------------------------
(* Parse jobs: parse_source starts a thread that runs                      *)
(* run_parse_in_background on a session of its own.  A step of a thread is *)
(* one transaction, from its first statement that writes to its commit;    *)
(* the queries a thread makes before its first write see what is committed *)
(* at the time they run.                                                   *)

MaxJobs == 2

JobLines == {lineAndrew, lineSimon}

JobMaxLines == 1

(* no page text, and every two-page chart of at most one job line a page *)
JobDocuments == {<<>>} \cup [1..NumPages -> PagesOver(JobLines, JobMaxLines)]

(* the rows of a source that the given pages hold (of every page when      *)
(* page_indexes is None)                                                   *)
OnPages(row, source_id, page_indexes) ==
    /\ row.source_id = source_id
    /\ \/ page_indexes = NoPageIndexes
       \/ \E k \in 1..Len(page_indexes) : row.page_index = page_indexes[k]

(* run_parse_in_background, lines 47-57: the tables after the deletes *)
ParseDeletes(P, F, C, source_id, page_indexes) ==
    [ children |-> Deleted(C, { c \in 1..Len(C) :
                                  /\ C[c].family_id \in 1..Len(F)
                                  /\ OnPages(F[C[c].family_id], source_id, page_indexes) },
                           NoChild),
      families |-> Deleted(F, { f \in 1..Len(F) : OnPages(F[f], source_id, page_indexes) },
                           NoFamily),
      persons |-> Deleted(P, { p \in 1..Len(P) : OnPages(P[p], source_id, page_indexes) },
                          NoPerson) ]

(* the row the flush writes for a person loaded as row `loaded` and merged *)
(* with the sighting s: the columns the merge changed, over the row stored *)
(* now                                                                     *)
Flushed(current, loaded, s) ==
    [ column \in DOMAIN current |->
        IF MergedPerson(loaded, s)[column] # loaded[column]
        THEN MergedPerson(loaded, s)[column]
        ELSE current[column] ]

(* upsert_from_parse whose queries ran on the table seen and whose write   *)
(* reaches the table P: an insert of a fingerprint that P holds by now     *)
(* breaks uq_person_source_line, an update of a row that P lost matches no *)
(* row                                                                     *)
StaleUpsert(P, seen, source_id, s, d) ==
    IF d.created
    THEN IF LookupByLineKey(P, source_id, s.line_key) # NoId
         THEN [ persons |-> P, id |-> NoId, created |-> FALSE, error |-> "IntegrityError" ]
         ELSE [ persons |-> Append(P, NewPerson(source_id, s)),
                id |-> Len(P) + 1, created |-> TRUE, error |-> "" ]
    ELSE IF ~Exists(P, d.id, NoPerson)
         THEN [ persons |-> P, id |-> NoId, created |-> FALSE, error |-> "StaleDataError" ]
         ELSE [ persons |-> [P EXCEPT ![d.id] = Flushed(@, seen[d.id], s)],
                id |-> d.id, created |-> FALSE, error |-> "" ]

(* the first line of lines[i..] that is a person line, 0 when there is none *)
RECURSIVE FirstPersonLine(_, _)
FirstPersonLine(lines, i) ==
    IF i > Len(lines) THEN 0
    ELSE IF Entry(lines[i][3]).kind = "person" THEN i
    ELSE FirstPersonLine(lines, i + 1)

NoPass1(P) ==
    [ persons |-> P, person_records |-> <<>>, flagged_lines |-> <<>>,
      last_principal_person |-> NoRecord ]

(* pass 1 from its first person line lines[k] on, r the result of the      *)
(* upsert of that line                                                     *)
Pass1After(st, source_id, lines, k, r) ==
    IF r.error # "" THEN [ error |-> r.error, st |-> st ]
    ELSE [ error |-> "",
           st |-> Pass1Lines(Recorded(st, r,
                                      PersonRecord(NoId, Entry(lines[k][3]).gen,
                                                   lines[k][1], lines[k][2], FALSE)),
                             source_id, lines, k + 1) ]

(* pass 1 from its first person line lines[k] on, the queries of that line *)
(* made on the table seen                                                  *)
Pass1From(P, seen, source_id, lines, k, s) ==
    Pass1After(Pass1Lines(NoPass1(P), source_id, SubSeq(lines, 1, k - 1), 1),
               source_id, lines, k,
               StaleUpsert(P, seen, source_id, s, upsert_from_parse(seen, source_id, s)))

(* extract_persons_pass1 on the table P, the queries of its first person   *)
(* line made on the table seen                                             *)
StalePass1(P, seen, source_id, lines, k) ==
    IF k = 0 THEN [ error |-> "", st |-> Pass1Lines(NoPass1(P), source_id, lines, 1) ]
    ELSE Pass1From(P, seen, source_id, lines, k,
                   LineSighting(source_id, lines[k][1], lines[k][2], lines[k][3],
                                Entry(lines[k][3]), Entry(lines[k][3]).gen))

NoStats == [people |-> 0, families |-> 0, children |-> 0]

Job(status, error, stats) == [status |-> status, error |-> error, stats |-> stats]

Thread(pc, source_id, page_indexes) ==
    [pc |-> pc, source_id |-> source_id, page_indexes |-> page_indexes]

(* what the thread holds between its steps: the table its queries saw, the *)
(* person records of pass 1 and the statistics                             *)
NoLocals == [seen |-> <<>>, person_records |-> <<>>, stats |-> NoStats]

Active(j) == threads[j].pc \notin {"done", "dead"}

(* parse_source: the job is stored as running and its thread starts *)
ParseSource(source_id, page_indexes) ==
    /\ Len(PARSE_JOBS) < MaxJobs
    /\ source_id \in Sources
    /\ PARSE_JOBS' = Append(PARSE_JOBS, Job("running", "", NoStats))
    /\ threads' = Append(threads, Thread("open", source_id, page_indexes))
    /\ locals' = Append(locals, NoLocals)
    /\ UNCHANGED <<persons, families, children, pages, runs, calls, last, resolved, ocrvars>>

(* run_parse_in_background, lines 29-45: the source and its page texts *)
JobOpen(j) ==
    /\ threads[j].pc = "open"
    /\ IF pages = <<>>
       THEN /\ PARSE_JOBS' = [PARSE_JOBS EXCEPT
                                ![j] = Job("failed", "OCR has not been run for this source",
                                           NoStats)]
            /\ threads' = [threads EXCEPT ![j].pc = "done"]
       ELSE /\ threads' = [threads EXCEPT ![j].pc = "delete"]
            /\ UNCHANGED PARSE_JOBS
    /\ UNCHANGED <<persons, families, children, pages, runs, calls, last, resolved,
                   locals, ocrvars>>

(* run_parse_in_background, lines 47-57: the deletes and their commit *)
JobDelete(j) ==
    /\ threads[j].pc = "delete"
    /\ \E r \in {ParseDeletes(persons, families, children,
                              threads[j].source_id, threads[j].page_indexes)} :
          /\ persons' = r.persons
          /\ families' = r.families
          /\ children' = r.children
    /\ threads' = [threads EXCEPT ![j].pc = "pass1"]
    /\ last' = Call("delete", "job")
    /\ UNCHANGED <<pages, runs, calls, resolved, PARSE_JOBS, locals, ocrvars>>

(* extract_persons_pass1 up to its first write: the queries for the first  *)
(* person line                                                             *)
JobQuery(j) ==
    /\ threads[j].pc = "pass1"
    /\ threads' = [threads EXCEPT ![j].pc = "write"]
    /\ locals' = [locals EXCEPT ![j].seen = persons]
    /\ UNCHANGED <<persons, families, children, pages, runs, calls, last, resolved,
                   PARSE_JOBS, ocrvars>>

(* extract_persons_pass1 from its first write to its commit; an error of   *)
(* the write ends the thread and leaves the tables                         *)
JobPass1(j) ==
    /\ threads[j].pc = "write"
    /\ \E lines \in {iter_lines(pages, threads[j].page_indexes)} :
       \E r \in {StalePass1(persons, locals[j].seen, threads[j].source_id, lines,
                            FirstPersonLine(lines, 1))} :
          IF r.error # ""
          THEN /\ threads' = [threads EXCEPT ![j].pc = "dead"]
               /\ locals' = [locals EXCEPT ![j].seen = <<>>]
               /\ last' = Call("pass1", r.error)
               /\ UNCHANGED persons
          ELSE /\ persons' = r.st.persons
               /\ threads' = [threads EXCEPT ![j].pc = "pass2"]
               /\ locals' = [locals EXCEPT
                               ![j].seen = <<>>,
                               ![j].person_records = r.st.person_records,
                               ![j].stats.people =
                                   Cardinality({ r.st.person_records[k].person_id :
                                                   k \in 1..Len(r.st.person_records) })]
               /\ last' = Call("pass1", "ok")
    /\ UNCHANGED <<families, children, pages, runs, calls, resolved, PARSE_JOBS, ocrvars>>

(* build_relationships_pass2 and its commit *)
JobPass2(j) ==
    /\ threads[j].pc = "pass2"
    /\ \E r \in {build_relationships_pass2(families, children, persons,
                                           threads[j].source_id,
                                           locals[j].person_records)} :
          /\ families' = r.families
          /\ children' = r.children
          /\ locals' = [locals EXCEPT
                          ![j].stats.families = Cardinality(r.families_seen),
                          ![j].stats.children = Cardinality(r.children_seen)]
    /\ threads' = [threads EXCEPT ![j].pc = "finish"]
    /\ last' = Call("pass2", "ok")
    /\ UNCHANGED <<persons, pages, runs, calls, resolved, PARSE_JOBS, ocrvars>>

(* run_parse_in_background, lines 70-74: the job is completed *)
JobFinish(j) ==
    /\ threads[j].pc = "finish"
    /\ PARSE_JOBS' = [PARSE_JOBS EXCEPT ![j] = Job("completed", "", locals[j].stats)]
    /\ threads' = [threads EXCEPT ![j].pc = "done"]
    /\ UNCHANGED <<persons, families, children, pages, runs, calls, last, resolved,
                   locals, ocrvars>>

(* a statement of the thread raises a storage error: nothing in            *)
(* run_parse_in_background catches it, the thread ends                     *)
JobRaise(j) ==
    /\ threads[j].pc \in {"delete", "pass1", "write", "pass2", "finish"}
    /\ threads' = [threads EXCEPT ![j].pc = "dead"]
    /\ locals' = [locals EXCEPT ![j].seen = <<>>]
    /\ last' = Call("raise", "OperationalError")
    /\ UNCHANGED <<persons, families, children, pages, runs, calls, resolved,
                   PARSE_JOBS, ocrvars>>

(* the positions a thread can reach in one step *)
AfterPc(pc) ==
    CASE pc = "open" -> {"delete", "done"}
      [] pc = "delete" -> {"pass1", "dead"}
      [] pc = "pass1" -> {"write", "dead"}
      [] pc = "write" -> {"pass2", "dead"}
      [] pc = "pass2" -> {"finish", "dead"}
      [] pc = "finish" -> {"done", "dead"}
      [] OTHER -> {}

(* the thread of job j runs: it moves to a next position *)
ThreadRuns(j) ==
    /\ j \in 1..Len(threads)
    /\ \E pc \in AfterPc(threads[j].pc) : threads' = [threads EXCEPT ![j].pc = pc]

(* a step of one of the threads *)
NextThreads ==
    \/ \E j \in 1..Len(threads) : JobOpen(j)
    \/ \E j \in 1..Len(threads) : JobDelete(j)
    \/ \E j \in 1..Len(threads) : JobQuery(j)
    \/ \E j \in 1..Len(threads) : JobPass1(j)
    \/ \E j \in 1..Len(threads) : JobPass2(j)
    \/ \E j \in 1..Len(threads) : JobFinish(j)

JobRequests == Sources \X PageSelections

InitJobs ==
    /\ InitStore
    /\ pages \in JobDocuments

(* one job at a time: a request comes when no thread runs *)
NextReparse ==
    \/ \E q \in JobRequests :
          /\ \A j \in 1..Len(threads) : ~Active(j)
          /\ ParseSource(q[1], q[2])
    \/ NextThreads

SpecReparse == InitJobs /\ [][NextReparse]_vars

(* requests at any time, threads interleaved *)
NextJobs ==
    \/ \E q \in JobRequests : ParseSource(q[1], q[2])
    \/ NextThreads

SpecJobs == InitJobs /\ [][NextJobs]_vars

(* the same with storage errors, for the jobs of one source over one      *)
(* chart or none; every thread that has not ended runs on                  *)
FairDocuments == {<<>>, <<lineAndrew, lineSimon>>}

InitJobsFair ==
    /\ InitStore
    /\ pages \in FairDocuments

NextJobsRaising ==
    \/ \E page_indexes \in PageSelections : ParseSource(1, page_indexes)
    \/ NextThreads
    \/ \E j \in 1..Len(threads) : JobRaise(j)

SpecJobsFair ==
    /\ InitJobsFair
    /\ [][NextJobsRaising]_vars
    /\ \A j \in 1..MaxJobs : WF_threads(ThreadRuns(j))

----------------------------------------------------------------------------
(* OCR job statuses (SpecOcr)                                              *)

(* the place of a status in the order queued, running, completed or failed *)
StatusRank(status) ==
    CASE status = "queued" -> 0
      [] status = "running" -> 1
      [] OTHER -> 2

(* the entries of the jobs J move forward in this step *)
MovesForward(J) ==
    \A j \in J \cap DOMAIN OCR_JOBS :
        StatusRank(OCR_JOBS'[j].status) >= StatusRank(OCR_JOBS[j].status)

(* C30: under every interleaving of queue_ocr_job with the worker thread   *)
(* the status of an OCR job only moves forward, from queued to running to  *)
(* completed or failed, and a completed job has the output path that       *)
(* get_ocr_result reads.                                                   *)
C30_StatusForward ==
    [][ /\ MovesForward(DOMAIN OCR_JOBS)
        /\ \A j \in DOMAIN OCR_JOBS' :
              OCR_JOBS'[j].status = "completed" => OCR_JOBS'[j].output_pdf ]_vars

(* the part that holds: the status of a job moves forward in every step of *)
(* the worker                                                              *)
C30_WorkerMovesForward ==
    [][ callers' = callers => MovesForward(DOMAIN OCR_JOBS) ]_vars


----------------------------------------------------------------------------
(* References after a reparse (SpecReparse)                                *)

(* the Child rows of the families of a source refer to a Person and a      *)
(* Family, and the filled parent slots of its families to a Person of the  *)
(* source                                                                  *)
ReferencesHoldIn(source_id) ==
    /\ \A c \in 1..Len(children) :
          (/\ Exists(families, children[c].family_id, NoFamily)
           /\ families[children[c].family_id].source_id = source_id)
          => Exists(persons, children[c].person_id, NoPerson)
    /\ \A f \in 1..Len(families) : \A parent_id \in {families[f].husband_id, families[f].wife_id} :
          (families[f].source_id = source_id /\ parent_id # NoId)
          => /\ Exists(persons, parent_id, NoPerson)
             /\ persons[parent_id].source_id = source_id

ReferencesHold ==
    /\ \A c \in 1..Len(children) :
          children[c] # NoChild => Exists(families, children[c].family_id, NoFamily)
    /\ \A source_id \in Sources : ReferencesHoldIn(source_id)

(* the last job is completed and was asked with page indexes or without *)
LastJobCompleted(page_scoped) ==
    /\ threads # <<>>
    /\ PARSE_JOBS[Len(threads)].status = "completed"
    /\ (threads[Len(threads)].page_indexes # NoPageIndexes) = page_scoped

(* C26: after a page-scoped reparse through run_parse_in_background every  *)
(* Child link refers to an existing Person and an existing Family, and     *)
(* every filled Family parent slot refers to an existing Person of the     *)
(* same source.                                                            *)
C26_ReparseKeepsReferences ==
    LastJobCompleted(TRUE) => ReferencesHold

(* the part that holds: after a full reparse the references of the         *)
(* families of the source hold, and after a page-scoped one every Child    *)
(* link refers to an existing Family                                       *)
C26_FullReparseKeepsReferences ==
    /\ LastJobCompleted(FALSE) => ReferencesHoldIn(threads[Len(threads)].source_id)
    /\ \A c \in 1..Len(children) :
          children[c] # NoChild => Exists(families, children[c].family_id, NoFamily)


----------------------------------------------------------------------------
(* The end of a parse job (SpecJobsFair)                                   *)

Running(j) == j <= Len(PARSE_JOBS) /\ PARSE_JOBS[j].status = "running"

Reported(j) == j <= Len(PARSE_JOBS) /\ PARSE_JOBS[j].status \in {"completed", "failed"}

(* C28: every parse job started by POST /parse eventually leaves status    *)
(* running and reports completed or failed, also when parse_ocr_text or    *)
(* the deletes before it raise a storage error inside the thread.          *)
C28_JobsEnd ==
    \A j \in 1..MaxJobs : Running(j) ~> Reported(j)

(* the part that holds: a running job is reported in the end unless its    *)
(* thread ended with an error                                              *)
C28_JobsEndOrDie ==
    \A j \in 1..MaxJobs : Running(j) ~> (Reported(j) \/ (j <= Len(threads) /\ threads[j].pc = "dead"))


----------------------------------------------------------------------------
(* Two jobs of one source (SpecJobs)                                       *)

(* two jobs were started, both for the same source with page texts, and    *)
(* both threads have ended                                                 *)
TwoJobsEnded ==
    /\ Len(threads) = 2
    /\ threads[1].source_id = threads[2].source_id
    /\ pages # <<>>
    /\ \A j \in 1..2 : ~Active(j)

(* no fingerprint, canonical couple or (family, child) pair is stored twice *)
NothingTwice ==
    /\ \A p, q \in 1..Len(persons) :
          (/\ p # q /\ persons[p] # NoPerson
           /\ persons[p].source_id = persons[q].source_id
           /\ persons[p].line_key = persons[q].line_key) => persons[p].line_key = None
    /\ \A f, g \in 1..Len(families) :
          (/\ f # g /\ families[f] # NoFamily /\ ~families[f].is_single_parent
           /\ families[f].source_id = families[g].source_id)
          => {families[f].husband_id, families[f].wife_id}
               # {families[g].husband_id, families[g].wife_id}
    /\ \A c, d \in 1..Len(children) :
          (c # d /\ children[c] # NoChild)
          => <<children[c].family_id, children[c].person_id>>
               # <<children[d].family_id, children[d].person_id>>

(* the tables are those one full parse of the source leaves *)
AsAfterOneJob(r) ==
    /\ persons = r.persons
    /\ families = r.families
    /\ children = r.children

BothFull == \A j \in 1..2 : threads[j].page_indexes = NoPageIndexes

(* C29: when two parse jobs for the same source run concurrently, both     *)
(* reach status completed, neither aborts on a uniqueness violation, no    *)
(* fingerprint, canonical couple or (family, child) pair is stored twice   *)
(* and the final records are those of a single job.                        *)
C29_TwoJobsAsOne ==
    TwoJobsEnded =>
        /\ \A j \in 1..2 : PARSE_JOBS[j].status = "completed"
        /\ NothingTwice
        /\ BothFull => AsAfterOneJob(parse_ocr_text(<<>>, <<>>, <<>>, threads[1].source_id,
                                                    pages, NoPageIndexes))

(* the part that holds: nothing is stored twice, and two full jobs that    *)
(* both complete leave the records of a single job                         *)
C29_TwoCompletedJobsAsOne ==
    TwoJobsEnded =>
        /\ NothingTwice
        /\ (BothFull /\ \A j \in 1..2 : PARSE_JOBS[j].status = "completed")
           => AsAfterOneJob(parse_ocr_text(<<>>, <<>>, <<>>, threads[1].source_id,
                                           pages, NoPageIndexes))


----------------------------------------------------------------------------
(* Jobs of two sources (SpecJobs)                                          *)

(* the id a row of the source has when the table holds that source alone:  *)
(* its place among the rows of the source                                  *)
AloneId(T, source_id, id) ==
    IF id = NoId THEN NoId
    ELSE Cardinality({ i \in 1..id : T[i].source_id = source_id })

(* a family or child-link fingerprint with the two ids it is made of       *)
(* replaced                                                                *)
Rekeyed(line_key, a, b) ==
    IF line_key = None THEN None
    ELSE <<line_key[1], line_key[2], line_key[3], line_key[4], a, b>>

(* the records of a source with the ids they have when the source is alone *)
PersonsAlone(P, source_id) == SelectSeq(P, LAMBDA row : row.source_id = source_id)

FamiliesAlone(F, P, source_id) ==
    LET own == SelectSeq(F, LAMBDA row : row.source_id = source_id)
    IN  [ k \in 1..Len(own) |->
            [ own[k] EXCEPT
              !.husband_id = AloneId(P, source_id, @),
              !.wife_id = AloneId(P, source_id, @),
              !.line_key = IF @ = None THEN None
                           ELSE Rekeyed(@, AloneId(P, source_id, @[5]),
                                        AloneId(P, source_id, @[6])) ] ]

ChildrenAlone(C, F, P, source_id) ==
    LET own == SelectSeq(C, LAMBDA row : /\ row.family_id \in 1..Len(F)
                                         /\ F[row.family_id].source_id = source_id)
    IN  [ k \in 1..Len(own) |->
            [ own[k] EXCEPT
              !.family_id = AloneId(F, source_id, @),
              !.person_id = AloneId(P, source_id, @),
              !.line_key = IF @ = None THEN None
                           ELSE Rekeyed(@, AloneId(F, source_id, @[5]),
                                        AloneId(P, source_id, @[6])) ] ]

(* the records of the source are those of the run r made alone *)
SourceAsAlone(source_id, r) ==
    /\ PersonsAlone(persons, source_id) = r.persons
    /\ FamiliesAlone(families, persons, source_id) = r.families
    /\ ChildrenAlone(children, families, persons, source_id) = r.children

(* the rows of the table T that belong to another source than source_id,   *)
(* with their ids                                                          *)
RowsOfOthers(T, source_id) ==
    { <<i, T[i]>> : i \in { k \in 1..Len(T) : T[k].source_id \notin {0, source_id} } }

LinksOfOthers(C, F, source_id) ==
    { <<i, C[i]>> : i \in { k \in 1..Len(C) :
                              /\ C[k].family_id \in 1..Len(F)
                              /\ F[C[k].family_id].source_id \notin {0, source_id} } }

(* two jobs were started, for different sources with page texts, and both  *)
(* are completed                                                           *)
TwoSourcesCompleted ==
    /\ Len(threads) = 2
    /\ threads[1].source_id # threads[2].source_id
    /\ \A j \in 1..2 : PARSE_JOBS[j].status = "completed"

(* C21: parse runs for two different sources, interleaved in any order,    *)
(* never modify or create a Person, Family or Child-link record of the     *)
(* other source, and each source ends with the records it would have if    *)
(* its run had executed alone (the ids being those of the source alone).   *)
C21_SourcesIndependent ==
    /\ [][ \A j \in 1..Len(threads) :
              threads'[j].pc # threads[j].pc =>
                /\ RowsOfOthers(persons', threads[j].source_id)
                     = RowsOfOthers(persons, threads[j].source_id)
                /\ RowsOfOthers(families', threads[j].source_id)
                     = RowsOfOthers(families, threads[j].source_id)
                /\ LinksOfOthers(children', families', threads[j].source_id)
                     = LinksOfOthers(children, families, threads[j].source_id) ]_vars
    /\ [](TwoSourcesCompleted =>
            \A j \in 1..2 :
                SourceAsAlone(threads[j].source_id,
                              parse_ocr_text(<<>>, <<>>, <<>>, threads[j].source_id,
                                             pages, threads[j].page_indexes)))

(* both jobs are completed, and the rows of the two sources alternate in   *)
(* the Person table and, the other way round, in the Family table          *)
C21_Witness ==
    /\ TwoSourcesCompleted
    /\ \E p, q \in 1..Len(persons) :
          p < q /\ persons[p].source_id = 1 /\ persons[q].source_id = 2
    /\ \E f, g \in 1..Len(families) :
          f < g /\ families[f].source_id = 2 /\ families[g].source_id = 1

====
